---- MODULE Spec2Model ----
(***************************************************************************)
(* A model of the Amplitude MCP server: the 13 tool handlers of            *)
(* src/index.ts, the input schemas they are registered with, and the       *)
(* service methods of src/services/amplitude.service.ts they call.         *)
(*                                                                         *)
(* Strings.  A string of the program is a Text: a sequence of atoms.  An   *)
(* atom is either one delimiter character ("&", "=", "#", "?", a double    *)
(* quote, a space, a newline) or a run of characters none of which is a    *)
(* delimiter.  Concatenation of strings is \o of Texts, so that what a     *)
(* template literal or an encoder does to a delimiter is visible.          *)
(*                                                                         *)
(* Numbers.  A JavaScript number n is held as the integer 2n ("halves"),   *)
(* so that the non-integers n + 0.5 that z.number() accepts are values of  *)
(* the model too.                                                          *)
(***************************************************************************)
EXTENDS Integers, Sequences, FiniteSets, TLC

VARIABLES pc, tool, input, requests, response, outcome, envelope,
          argv, env, stderr, calls, server, exitCode

vars == <<pc, tool, input, requests, response, outcome, envelope,
          argv, env, stderr, calls, server, exitCode>>

(***************************************************************************)
(* Bounds of the model.                                                    *)
(***************************************************************************)
MaxLines == 3
MaxEvents == 2

(***************************************************************************)
(* Numbers.                                                                *)
(***************************************************************************)
Num(n) == 2 * n
Half(n) == 2 * n + 1

Min(a, b) == IF a <= b THEN a ELSE b

\* if (x) on a number: 0 is falsy
TruthyNumber(h) == h # 0

\* Number.prototype.toString, on the numbers the model uses (halves >= 0
\* and negative integers)
NumberToString(h) ==
  IF h % 2 = 0 THEN <<ToString(h \div 2)>>
  ELSE <<ToString(h \div 2) \o ".5">>

\* ToIntegerOrInfinity of Array.prototype.slice: truncation towards zero
ToIntegerOrInfinity(h) ==
  IF h >= 0 THEN h \div 2 ELSE -((-h) \div 2)

\* Array.prototype.slice(0, end) for end >= 0
Slice0(seq, end) ==
  SubSeq(seq, 1, Min(ToIntegerOrInfinity(end), Len(seq)))

(***************************************************************************)
(* Texts.                                                                  *)
(***************************************************************************)
\* if (s) on a string: the empty string is falsy
TruthyText(t) == t # <<>>

\* String.prototype.includes
Includes(t, part) ==
  \E i \in 0..(Len(t) - Len(part)) : SubSeq(t, i + 1, i + Len(part)) = part

\* the characters String.prototype.trim removes and JSON.parse tolerates
\* around a value
Whitespace == {" ", "\r", "\t"}

\* String.prototype.trim
RECURSIVE Trim(_)
Trim(t) ==
  IF t = <<>> THEN t
  ELSE IF Head(t) \in Whitespace THEN Trim(Tail(t))
  ELSE IF t[Len(t)] \in Whitespace THEN Trim(SubSeq(t, 1, Len(t) - 1))
  ELSE t

\* String.prototype.split(sep), computed by halving the text so that long
\* texts do not need deep recursion: the last piece of the left half and
\* the first piece of the right half are one piece of the whole
RECURSIVE Split(_, _)
Split(t, sep) ==
  IF Len(t) = 0 THEN << <<>> >>
  ELSE IF Len(t) = 1 THEN (IF t[1] = sep THEN << <<>>, <<>> >> ELSE << t >>)
  ELSE LET m == Len(t) \div 2
           L == Split(SubSeq(t, 1, m), sep)
           R == Split(SubSeq(t, m + 1, Len(t)), sep)
       IN  SubSeq(L, 1, Len(L) - 1) \o << L[Len(L)] \o R[1] >> \o Tail(R)

\* Array.prototype.join(sep) on an array of Texts of one atom each
JoinAtoms(atoms, sep) ==
  [i \in 1..(IF Len(atoms) = 0 THEN 0 ELSE 2 * Len(atoms) - 1) |->
     IF i % 2 = 1 THEN atoms[(i + 1) \div 2] ELSE sep]

\* Array.prototype.join(sep) on an array of Texts
RECURSIVE Join(_, _)
Join(texts, sep) ==
  IF Len(texts) = 0 THEN <<>>
  ELSE IF Len(texts) = 1 THEN texts[1]
  ELSE texts[1] \o <<sep>> \o Join(Tail(texts), sep)

(***************************************************************************)
(* Optional fields of an input: <<>> when the field is absent (undefined), *)
(* <<v>> when it is supplied with value v.                                 *)
(***************************************************************************)
Optional(S) == {<<>>} \cup {<<v>> : v \in S}
Supplied(x) == x # <<>>
Val(x) == x[1]

(***************************************************************************)
(* Regular expressions of the input schemas.  A run of digits is one atom  *)
(* of the Text, named in Digits; Len gives the number of digits.           *)
(***************************************************************************)
Digits == {"20220201", "20230101", "20230131", "2023", "01", "31", "05", "23", "99"}

IsDigits(atom, n) == atom \in Digits /\ Len(atom) = n

\* /^\d{8}$/
MatchesDate(t) == Len(t) = 1 /\ IsDigits(t[1], 8)

\* /^\d{8}/ : nothing anchors the end of the string
MatchesDatePrefix(t) == Len(t) >= 1 /\ t[1] \in Digits /\ Len(t[1]) >= 8

\* /^\d{8}T\d{2}$/
MatchesExportTime(t) ==
  Len(t) = 3 /\ IsDigits(t[1], 8) /\ t[2] = "T" /\ IsDigits(t[3], 2)

\* /^\d{4}-\d{2}-\d{2}$/
MatchesAnnotationDate(t) ==
  /\ Len(t) = 5
  /\ IsDigits(t[1], 4) /\ t[2] = "-" /\ IsDigits(t[3], 2)
  /\ t[4] = "-" /\ IsDigits(t[5], 2)

(***************************************************************************)
(* JSON.  A JSON document is one atom; JSON.parse accepts it with          *)
(* whitespace around it.  A parsed value is the record of its type and its *)
(* canonical text, which JSON.stringify writes back.                       *)
(***************************************************************************)
DefaultLimit == 1000

\* the line of the i-th record of a large export
RecordLine(i) == "{\"id\":" \o ToString(i) \o "}"

BulkSize == DefaultLimit + 1

BulkLines == {RecordLine(i) : i \in 1..BulkSize}

ObjectDocs ==
  {"{\"a\":1}", "{\"b\":2}", "{\"data\":[]}",
   "{\"error\":\"Invalid API key\"}", "{\"code\":500}"} \cup BulkLines

NumberDocs == {"42"}

NullDocs == {"null"}

JsonDocs == ObjectDocs \cup NumberDocs \cup NullDocs

JsonType(atom) ==
  IF atom \in ObjectDocs THEN "object"
  ELSE IF atom \in NumberDocs THEN "number"
  ELSE "null"

\* whether JSON.parse(t) returns (TRUE) or throws a SyntaxError (FALSE)
Parses(t) == Len(Trim(t)) = 1 /\ Trim(t)[1] \in JsonDocs

\* JSON.parse(t) when it returns
JSONparse(t) == [type |-> JsonType(Trim(t)[1]), canon |-> Trim(t)[1]]

\* the message of the SyntaxError JSON.parse throws: it names the offending
\* token, not the text
SyntaxErrorMessage == <<"Unexpected token in JSON at position 0">>

\* JSON.stringify(value, null, 2) of a parsed value
StringifyValue(v) == <<v.canon>>

\* JSON.stringify(array, null, 2) of an array of parsed values
StringifyArray(arr) ==
  <<"[">> \o JoinAtoms([i \in 1..Len(arr) |-> arr[i].canon], ",") \o <<"]">>

\* errorData.error of a parsed error body: the member "error" of an object,
\* <<>> (falsy, as undefined is) when the value has no such member
ErrorMember(v) ==
  IF v.canon = "{\"error\":\"Invalid API key\"}" THEN <<"Invalid API key">>
  ELSE <<>>

(***************************************************************************)
(* HTTP.  A request is the method and the URL that fetch sends; a response *)
(* is what the Amplitude API (or the network) answers.                     *)
(***************************************************************************)
baseUrl == <<"https://amplitude.com/api/2">>

\* the URL a request carries: fetch parses the URL and does not send the
\* fragment, which starts at the first "#"
RECURSIVE StripFragment(_)
StripFragment(url) ==
  IF url = <<>> THEN <<>>
  ELSE IF Head(url) = "#" THEN <<>>
  ELSE <<Head(url)>> \o StripFragment(Tail(url))

\* fetch(url, {method, headers}): the request that leaves the process; no
\* call of fetch in the service passes a body
fetch(method, url, headers) ==
  [method |-> method, url |-> StripFragment(url), headers |-> headers,
   body |-> <<>>]

NoResponse ==
  [kind |-> "none", status |-> 0, statusText |-> <<>>, gzip |-> FALSE, body |-> <<>>]

\* fetch rejects: the network failed before any response
NetworkFailure ==
  [kind |-> "neterr", status |-> 0, statusText |-> <<>>, gzip |-> FALSE,
   body |-> <<"request failed, reason: ", "ECONNREFUSED">>]

HttpResponse(status, statusText, gzip, body) ==
  [kind |-> "http", status |-> status, statusText |-> statusText,
   gzip |-> gzip, body |-> body]

\* response.ok
ok(resp) == resp.status >= 200 /\ resp.status <= 299

StatusText(status) ==
  CASE status = 200 -> <<"OK">>
    [] status = 400 -> <<"Bad", " ", "Request">>
    [] status = 404 -> <<"Not", " ", "Found">>
    [] status = 500 -> <<"Internal", " ", "Server", " ", "Error">>
    [] status = 504 -> <<"Gateway", " ", "Timeout">>
    [] OTHER -> <<>>

(***************************************************************************)
(* Outcome of a service method: it returns a value or throws an Error.     *)
(***************************************************************************)
Return(value) == [kind |-> "return", value |-> value, message |-> <<>>]
Throw(message) == [kind |-> "throw", value |-> <<>>, message |-> message]
NoOutcome == [kind |-> "none", value |-> <<>>, message |-> <<>>]

RethrowUnwrapped(prefix, r) == r

\* the catch block of a service method: every value thrown inside the try
\* block is an Error, and is thrown again under the method's prefix
Rethrow(prefix, r) ==
  IF r.kind = "throw" THEN Throw(prefix \o r.message) ELSE r

(***************************************************************************)
(* Credentials (utils/config.ts) and the headers made of them              *)
(* (buildHeaders).  A key is a Text of one-character atoms; the command    *)
(* line and the environment each hold a key, hold the empty string, or do  *)
(* not hold it.                                                            *)
(***************************************************************************)
ApiKeyRequired ==
  <<"Amplitude API key is required. Provide via --amplitude-api-key ",
    "argument or AMPLITUDE_API_KEY environment variable.">>

SecretKeyRequired ==
  <<"Amplitude secret key is required. Provide via --amplitude-secret-key ",
    "argument or AMPLITUDE_SECRET_KEY environment variable.">>

\* a || b on values that are strings or undefined
OrElse(a, b) == IF Supplied(a) /\ TruthyText(Val(a)) THEN a ELSE b

NotUndefinedOnly(x) == ~Supplied(x)

\* !x on a value that is a string or undefined
Not(x) == ~Supplied(x) \/ ~TruthyText(Val(x))

EnvWins(args, environment) ==
  LET apiKey == OrElse(environment.AMPLITUDE_API_KEY, args.apiKey)
      secretKey == OrElse(environment.AMPLITUDE_SECRET_KEY, args.secretKey)
  IN  IF Not(apiKey) THEN Throw(ApiKeyRequired)
      ELSE IF Not(secretKey) THEN Throw(SecretKeyRequired)
      ELSE Return([apiKey |-> Val(apiKey), secretKey |-> Val(secretKey)])

\* args.apiKey is argv["amplitude-api-key"], args.secretKey is
\* argv["amplitude-secret-key"]
getAmplitudeCredentials(args, environment) ==
  LET apiKey == OrElse(args.apiKey, environment.AMPLITUDE_API_KEY)
      secretKey == OrElse(args.secretKey, environment.AMPLITUDE_SECRET_KEY)
  IN  IF Not(apiKey) THEN Throw(ApiKeyRequired)
      ELSE IF Not(secretKey) THEN Throw(SecretKeyRequired)
      ELSE Return([apiKey |-> Val(apiKey), secretKey |-> Val(secretKey)])

\* the code of a character (the keys of the model are ASCII)
CharCode(c) ==
  CASE c = ":" -> 58
    [] c = "a" -> 97
    [] c = "b" -> 98
    [] c = "c" -> 99
    [] c = "d" -> 100
    [] c = "k" -> 107
    [] c = "s" -> 115

Base64Alphabet ==
  << "A", "B", "C", "D", "E", "F", "G", "H", "I", "J", "K", "L", "M", "N", "O",
     "P", "Q", "R", "S", "T", "U", "V", "W", "X", "Y", "Z", "a", "b", "c", "d",
     "e", "f", "g", "h", "i", "j", "k", "l", "m", "n", "o", "p", "q", "r", "s",
     "t", "u", "v", "w", "x", "y", "z", "0", "1", "2", "3", "4", "5", "6", "7",
     "8", "9", "+", "/" >>

Sextet(n) == Base64Alphabet[n + 1]

\* toString('base64') of a buffer: three bytes give four characters, and
\* the last group is padded with "="
RECURSIVE Base64(_)
Base64(bytes) ==
  IF Len(bytes) = 0 THEN ""
  ELSE IF Len(bytes) = 1
  THEN Sextet(bytes[1] \div 4) \o Sextet((bytes[1] % 4) * 16) \o "=="
  ELSE IF Len(bytes) = 2
  THEN Sextet(bytes[1] \div 4)
       \o Sextet((bytes[1] % 4) * 16 + bytes[2] \div 16)
       \o Sextet((bytes[2] % 16) * 4) \o "="
  ELSE Sextet(bytes[1] \div 4)
       \o Sextet((bytes[1] % 4) * 16 + bytes[2] \div 16)
       \o Sextet((bytes[2] % 16) * 4 + bytes[3] \div 64)
       \o Sextet(bytes[3] % 64)
       \o Base64(SubSeq(bytes, 4, Len(bytes)))

\* Buffer.from(text)
BufferFrom(t) == [i \in 1..Len(t) |-> CharCode(t[i])]

buildHeadersKeyOnly(credentials) ==
  [Authorization |-> <<"Basic ", Base64(BufferFrom(credentials.apiKey))>>,
   ContentType |-> <<"application/json">>]

\* ContentType is the header Content-Type
buildHeaders(credentials) ==
  LET authString ==
        Base64(BufferFrom(credentials.apiKey \o <<":">> \o credentials.secretKey))
  IN  [Authorization |-> <<"Basic ", authString>>,
       ContentType |-> <<"application/json">>]

(***************************************************************************)
(* exportEvents (amplitude.service.ts).                                    *)
(***************************************************************************)
ShortenMessage ==
  <<"The file size of the exported data is too large. ",
    "Shorten the time range and try again.", " The limit is 4GB.">>

LargeDataMessage ==
  <<"The amount of data is large causing a timeout. ",
    "For large amounts of data, use the Amazon S3 destination.">>

ApiErrorPrefix == <<"Amplitude API error: ">>

\* the url of exportEvents
exportUrl(params) ==
  baseUrl \o <<"/export", "?", "start", "=">> \o params.start
          \o <<"&", "end", "=">> \o params.end

\* errorText || response.statusText
ErrorTextOrStatus(resp) ==
  IF TruthyText(resp.body) THEN resp.body ELSE resp.statusText

\* the loop over the lines: a line that JSON.parse rejects is skipped
ParseLinesAbort(lines) ==
  IF \E i \in 1..Len(lines) : ~Parses(lines[i])
  THEN Throw(SyntaxErrorMessage)
  ELSE Return([i \in 1..Len(lines) |-> JSONparse(lines[i])])

ParseLines(lines) ==
  LET parsed == SelectSeq(lines, Parses)
  IN  Return([i \in 1..Len(parsed) |-> JSONparse(parsed[i])])

NonBlank(line) == TruthyText(Trim(line))

\* gunzip, toString('utf-8'), split('\n').filter(line => line.trim()) and
\* the parse loop
DecodeExport(resp) ==
  IF ~resp.gzip THEN Throw(<<"incorrect header check">>)
  ELSE ParseLines(SelectSeq(Split(resp.body, "\n"), NonBlank))

NotFoundThrows(resp) == Throw(ApiErrorPrefix \o ErrorTextOrStatus(resp))

\* status 404: no data in the range
NotFoundResult(resp) == Return(<<>>)

ExportStatusErrorGeneric(resp) == Throw(ApiErrorPrefix \o ErrorTextOrStatus(resp))

\* the errors of the statuses 400 and 504, and of the other statuses
ExportStatusError(resp) ==
  IF resp.status = 400 THEN Throw(ShortenMessage)
  ELSE IF resp.status = 504 THEN Throw(LargeDataMessage)
  ELSE Throw(ApiErrorPrefix \o ErrorTextOrStatus(resp))

\* the try block of exportEvents, from the moment fetch settles
exportEventsTry(resp) ==
  IF resp.kind = "neterr" THEN Throw(resp.body)
  ELSE IF resp.status = 404 THEN NotFoundResult(resp)
  ELSE IF ~ok(resp) THEN ExportStatusError(resp)
  ELSE DecodeExport(resp)

exportEvents(resp) ==
  Rethrow(<<"Failed to export events: ">>, exportEventsTry(resp))

(***************************************************************************)
(* Envelopes of the tool handlers (index.ts).                              *)
(***************************************************************************)
NoEnvelope == [isError |-> FALSE, content |-> <<>>]

Success(summary, payload) == [isError |-> FALSE, content |-> <<summary, payload>>]

Failure(text) == [isError |-> TRUE, content |-> <<text>>]

\* what the protocol layer answers when the input does not satisfy the
\* schema the tool is registered with: the handler is not called
InvalidArguments == Failure(<<"Invalid arguments for tool">>)

LimitedEventsNoDefault(events, limit) ==
  IF Supplied(limit) /\ TruthyNumber(Val(limit))
  THEN Slice0(events, Val(limit))
  ELSE events

\* limit ? events.slice(0, limit) : events.slice(0, 1000)
LimitedEvents(events, limit) ==
  IF Supplied(limit) /\ TruthyNumber(Val(limit))
  THEN Slice0(events, Val(limit))
  ELSE Slice0(events, Num(DefaultLimit))

exportEnvelopeTotalOfReturned(in, r) ==
  IF r.kind = "throw"
  THEN Failure(<<"Error exporting events: ">> \o r.message)
  ELSE LET limitedEvents == LimitedEvents(r.value, in.limit)
       IN  Success(<<"Raw event data exported successfully. Total events: ",
                     ToString(Len(limitedEvents)), ", Returned: ",
                     ToString(Len(limitedEvents))>>,
                   StringifyArray(limitedEvents))

\* the return of the export_events handler
exportEnvelope(in, r) ==
  IF r.kind = "throw"
  THEN Failure(<<"Error exporting events: ">> \o r.message)
  ELSE LET limitedEvents == LimitedEvents(r.value, in.limit)
       IN  Success(<<"Raw event data exported successfully. Total events: ",
                     ToString(Len(r.value)), ", Returned: ",
                     ToString(Len(limitedEvents))>>,
                   StringifyArray(limitedEvents))

(***************************************************************************)
(* export_events: schema, inputs, responses.                               *)
(***************************************************************************)
ExportTimes ==
  { <<"20220201", "T", "05">>, <<"20220201", "T", "23">>,
    <<"20220201", "T", "99">>, <<"20220201">> }

ExportLimits == {Num(0), Num(1), Num(2), Half(2), Num(10000), Num(10001)}

ExportInputs ==
  [start : ExportTimes, end : ExportTimes, limit : Optional(ExportLimits)]

\* the fields each schema declares without .optional()
RequiredFields(name) ==
  CASE name \in {"query_events", "segment_events", "funnel_analysis"} ->
         {"events", "start", "end"}
    [] name \in {"export_events", "get_active_users"} -> {"start", "end"}
    [] name = "get_chart" -> {"chartId"}
    [] name = "event_segmentation_dashboard" -> {"e", "start", "end"}
    [] name = "retention_analysis" -> {"se", "re", "start", "end"}
    [] name = "get_user_activity" -> {"user"}
    [] name = "create_annotation" -> {"app_id", "date", "label"}
    [] name = "get_annotation" -> {"id"}
    [] OTHER -> {}

\* the input object has every required field of the tool
HasRequired(name, in) == RequiredFields(name) \subseteq DOMAIN in

\* the input object r without its field f
Without(r, f) == [k \in DOMAIN r \ {f} |-> r[k]]

\* z.number().min(lo).max(hi)
InRange(h, lo, hi) == h >= Num(lo) /\ h <= Num(hi)

ExportSchema(in) ==
  /\ HasRequired("export_events", in)
  /\ MatchesExportTime(in.start)
  /\ MatchesExportTime(in.end)
  /\ Supplied(in.limit) => InRange(Val(in.limit), 1, 10000)

\* the lines an export may hold
LineTexts ==
  { <<>>, <<" ">>, <<"{\"a\":1}">>, <<"{\"b\":2}">>, <<"{invalid">>,
    <<"42">>, <<" ", "{\"a\":1}", "\r">> }

RECURSIVE SeqsUpTo(_, _)
SeqsUpTo(S, n) ==
  IF n = 0 THEN {<<>>}
  ELSE LET shorter == SeqsUpTo(S, n - 1)
       IN  shorter \cup {Append(q, x) : q \in shorter, x \in S}

\* the decompressed texts of the exports
ExportTexts ==
  {Join(lines, "\n") : lines \in SeqsUpTo(LineTexts, MaxLines)}
  \cup {JoinAtoms([i \in 1..BulkSize |-> RecordLine(i)], "\n")}

ErrorBodies == { <<>>, <<"quota", " ", "exceeded">> }

ExportResponses ==
  {NetworkFailure}
  \cup {HttpResponse(st, StatusText(st), FALSE, b) :
          st \in {400, 404, 500, 504}, b \in ErrorBodies}
  \cup {HttpResponse(500, <<>>, FALSE, <<>>)}
  \cup {HttpResponse(200, StatusText(200), TRUE, t) : t \in ExportTexts}
  \cup {HttpResponse(200, StatusText(200), FALSE, <<"<html>">>)}

(***************************************************************************)
(* URLSearchParams.  The parameters are a sequence of pairs of a key and a *)
(* value; toString writes them in the application/x-www-form-urlencoded    *)
(* form, in which the delimiters of a key or a value are escaped.          *)
(***************************************************************************)
Pair(k, v) == << [k |-> k, v |-> v] >>

EncodeAtom(atom) ==
  CASE atom = "&" -> "%26"
    [] atom = "=" -> "%3D"
    [] atom = "#" -> "%23"
    [] atom = "?" -> "%3F"
    [] atom = "\"" -> "%22"
    [] atom = " " -> "+"
    [] OTHER -> atom

FormEncode(t) == [i \in 1..Len(t) |-> EncodeAtom(t[i])]

\* URLSearchParams.prototype.toString
RECURSIVE SearchParamsToString(_)
SearchParamsToString(pairs) ==
  IF pairs = <<>> THEN <<>>
  ELSE FormEncode(<<Head(pairs).k>>) \o <<"=">> \o FormEncode(Head(pairs).v)
       \o (IF Len(pairs) > 1 THEN <<"&">> ELSE <<>>)
       \o SearchParamsToString(Tail(pairs))

\* ...(params.x && { x: params.x }) for a string
OptText(k, x) ==
  IF Supplied(x) /\ TruthyText(Val(x)) THEN Pair(k, Val(x)) ELSE <<>>

\* ...(params.x && { x: params.x.toString() }) for a number
OptNumber(k, x) ==
  IF Supplied(x) /\ TruthyNumber(Val(x))
  THEN Pair(k, NumberToString(Val(x))) ELSE <<>>

\* ...(params.x !== undefined && { x: params.x.toString() })
OptDefinedNumber(k, x) ==
  IF Supplied(x) THEN Pair(k, NumberToString(Val(x))) ELSE <<>>

WithQuery(path, pairs) ==
  baseUrl \o <<path, "?">> \o SearchParamsToString(pairs)

(***************************************************************************)
(* The URLs of the service methods (amplitude.service.ts).                 *)
(***************************************************************************)
\* queryEvents: a template literal, nothing is escaped
queryEventsUrlWithInterval(params) ==
  baseUrl \o <<"/events/segmentation", "?", "e", "=", "{\"event_type\":\"">>
          \o params.events[1].eventType \o <<"\"}">>
          \o <<"&", "start", "=">> \o params.start
          \o <<"&", "end", "=">> \o params.end
          \o (IF Supplied(params.interval)
              THEN <<"&", "i", "=">> \o Val(params.interval) ELSE <<>>)

queryEventsUrl(params) ==
  baseUrl \o <<"/events/segmentation", "?", "e", "=", "{\"event_type\":\"">>
          \o params.events[1].eventType \o <<"\"}">>
          \o <<"&", "start", "=">> \o params.start
          \o <<"&", "end", "=">> \o params.end

getChartUrl(chartId) ==
  <<"https://amplitude.com/api/3/chart/">> \o chartId \o <<"/csv">>

getActiveUsersUrl(params) ==
  WithQuery("/users",
    Pair("start", params.start) \o Pair("end", params.end)
    \o OptText("m", params.m) \o OptNumber("i", params.i)
    \o OptText("s", params.s) \o OptText("g", params.g))

getEventSegmentationDashboardUrl(params) ==
  WithQuery("/events/segmentation",
    Pair("e", params.e) \o Pair("start", params.start) \o Pair("end", params.end)
    \o OptText("m", params.m) \o OptNumber("i", params.i)
    \o OptText("s", params.s) \o OptText("g", params.g)
    \o OptNumber("limit", params.limit))

getFunnelAnalysisUrlLastEvent(params) ==
  WithQuery("/funnels",
    Pair("start", params.start) \o Pair("end", params.end)
    \o OptText("mode", params.mode) \o OptNumber("i", params.i)
    \o OptText("s", params.s) \o OptText("g", params.g)
    \o OptNumber("cs", params.cs) \o OptNumber("limit", params.limit)
    \o Pair("e", params.events[Len(params.events)]))

\* the events are appended one by one after the other parameters
getFunnelAnalysisUrl(params) ==
  WithQuery("/funnels",
    Pair("start", params.start) \o Pair("end", params.end)
    \o OptText("mode", params.mode) \o OptNumber("i", params.i)
    \o OptText("s", params.s) \o OptText("g", params.g)
    \o OptNumber("cs", params.cs) \o OptNumber("limit", params.limit)
    \o [j \in 1..Len(params.events) |-> [k |-> "e", v |-> params.events[j]]])

getRetentionAnalysisUrl(params) ==
  WithQuery("/retention",
    Pair("se", params.se) \o Pair("re", params.re)
    \o Pair("start", params.start) \o Pair("end", params.end)
    \o OptText("rm", params.rm) \o OptText("rb", params.rb)
    \o OptNumber("i", params.i) \o OptText("s", params.s)
    \o OptText("g", params.g))

getUserActivityUrl(params) ==
  WithQuery("/useractivity",
    Pair("user", params.user)
    \o OptDefinedNumber("offset", params.offset)
    \o OptNumber("limit", params.limit)
    \o OptText("direction", params.direction))

getEventsListUrl == baseUrl \o <<"/events/list">>

createAnnotationUrl(params) ==
  WithQuery("/annotations",
    Pair("app_id", NumberToString(params.app_id))
    \o Pair("date", params.date) \o Pair("label", params.label)
    \o OptText("chart_id", params.chart_id)
    \o OptText("details", params.details))

getAllAnnotationsUrl == baseUrl \o <<"/annotations">>

getAnnotationUrl(annotationId) ==
  WithQuery("/annotations", Pair("id", NumberToString(annotationId)))

(***************************************************************************)
(* queryEvents and the methods that decode a JSON body.                    *)
(***************************************************************************)
\* the error response.json() rejects with when the body is not JSON
InvalidJsonMessage == <<"invalid json response body, reason: ">> \o SyntaxErrorMessage

\* the TypeError of errorData.error when the body is the JSON value null
NullMemberMessage == <<"Cannot read properties of null (reading 'error')">>

\* return await response.json()
ResponseJson(resp) ==
  IF Parses(resp.body) THEN Return(JSONparse(resp.body))
  ELSE Throw(InvalidJsonMessage)

\* the try block of queryEvents: the error body is read with response.json()
queryEventsTry(resp) ==
  IF resp.kind = "neterr" THEN Throw(resp.body)
  ELSE IF ~ok(resp)
  THEN IF ~Parses(resp.body) THEN Throw(InvalidJsonMessage)
       ELSE IF JSONparse(resp.body).type = "null" THEN Throw(NullMemberMessage)
       ELSE Throw(ApiErrorPrefix \o
                  (IF TruthyText(ErrorMember(JSONparse(resp.body)))
                   THEN ErrorMember(JSONparse(resp.body))
                   ELSE resp.statusText))
  ELSE ResponseJson(resp)

queryEvents(resp) ==
  Rethrow(<<"Failed to query events: ">>, queryEventsTry(resp))

jsonServiceTryNotFoundEmpty(resp) ==
  IF resp.kind = "neterr" THEN Throw(resp.body)
  ELSE IF resp.status = 404 THEN Return([type |-> "object", canon |-> "[]"])
  ELSE IF ~ok(resp) THEN Throw(ApiErrorPrefix \o ErrorTextOrStatus(resp))
  ELSE ResponseJson(resp)

\* the try block shared by getChart, getActiveUsers,
\* getEventSegmentationDashboard, getFunnelAnalysis, getRetentionAnalysis,
\* getUserActivity, getEventsList, createAnnotation, getAllAnnotations and
\* getAnnotation: the error body is read with response.text()
jsonServiceTry(resp) ==
  IF resp.kind = "neterr" THEN Throw(resp.body)
  ELSE IF ~ok(resp) THEN Throw(ApiErrorPrefix \o ErrorTextOrStatus(resp))
  ELSE ResponseJson(resp)

\* the prefix the catch block of each of these methods puts before the cause
FailedTo(name) ==
  CASE name = "get_chart" -> <<"Failed to get chart: ">>
    [] name = "get_active_users" -> <<"Failed to get active users: ">>
    [] name = "event_segmentation_dashboard" -> <<"Failed to get event segmentation: ">>
    [] name = "funnel_analysis" -> <<"Failed to get funnel analysis: ">>
    [] name = "retention_analysis" -> <<"Failed to get retention analysis: ">>
    [] name = "get_user_activity" -> <<"Failed to get user activity: ">>
    [] name = "get_events_list" -> <<"Failed to get events list: ">>
    [] name = "create_annotation" -> <<"Failed to create annotation: ">>
    [] name = "get_all_annotations" -> <<"Failed to get annotations: ">>
    [] name = "get_annotation" -> <<"Failed to get annotation: ">>

jsonService(name, resp) == Rethrow(FailedTo(name), jsonServiceTry(resp))

(***************************************************************************)
(* The envelopes of the handlers that return the decoded JSON.             *)
(***************************************************************************)
SuccessSummary(name) ==
  CASE name = "query_events" -> <<"Event data retrieved successfully:">>
    [] name = "segment_events" -> <<"Segmented event data retrieved successfully:">>
    [] name = "get_chart" -> <<"Chart data retrieved successfully:">>
    [] name = "get_active_users" -> <<"Active users data retrieved successfully:">>
    [] name = "event_segmentation_dashboard" -> <<"Event segmentation data retrieved successfully:">>
    [] name = "funnel_analysis" -> <<"Funnel analysis data retrieved successfully:">>
    [] name = "retention_analysis" -> <<"Retention analysis data retrieved successfully:">>
    [] name = "get_user_activity" -> <<"User activity data retrieved successfully:">>
    [] name = "get_events_list" -> <<"Events list retrieved successfully:">>
    [] name = "create_annotation" -> <<"Annotation created successfully:">>
    [] name = "get_all_annotations" -> <<"All annotations retrieved successfully:">>
    [] name = "get_annotation" -> <<"Annotation retrieved successfully:">>

ErrorPrefix(name) ==
  CASE name = "query_events" -> <<"Error querying events: ">>
    [] name = "export_events" -> <<"Error exporting events: ">>
    [] name = "segment_events" -> <<"Error segmenting events: ">>
    [] name = "get_chart" -> <<"Error getting chart: ">>
    [] name = "get_active_users" -> <<"Error getting active users: ">>
    [] name = "event_segmentation_dashboard" -> <<"Error getting event segmentation: ">>
    [] name = "funnel_analysis" -> <<"Error getting funnel analysis: ">>
    [] name = "retention_analysis" -> <<"Error getting retention analysis: ">>
    [] name = "get_user_activity" -> <<"Error getting user activity: ">>
    [] name = "get_events_list" -> <<"Error getting events list: ">>
    [] name = "create_annotation" -> <<"Error creating annotation: ">>
    [] name = "get_all_annotations" -> <<"Error getting annotations: ">>
    [] name = "get_annotation" -> <<"Error getting annotation: ">>

jsonEnvelopeUnflagged(name, r) ==
  IF r.kind = "throw"
  THEN [isError |-> FALSE, content |-> <<ErrorPrefix(name) \o r.message>>]
  ELSE Success(SuccessSummary(name), StringifyValue(r.value))

\* the return of a handler other than export_events
jsonEnvelope(name, r) ==
  IF r.kind = "throw" THEN Failure(ErrorPrefix(name) \o r.message)
  ELSE Success(SuccessSummary(name), StringifyValue(r.value))

(***************************************************************************)
(* The inputs of the other tools and the schemas they are registered with  *)
(* (index.ts).                                                             *)
(***************************************************************************)
MaxFunnelEvents == 3

\* start and end of the tools that take a day
StartTexts ==
  { <<"20230101">>, <<"2023", "-", "01", "-", "01">>, <<"20230101", "T", "05">> }

EndTexts == { <<"20230131">>, <<"20230131", "T", "23">> }

PropertyFilters ==
  { << [propertyName |-> <<"plan">>, value |-> <<"pro">>, op |-> <<"is">>] >> }

EventDefinitions ==
  [eventType : {<<"A">>, <<"B">>}, propertyFilters : {<<>>}]
  \cup [eventType : {<<"A">>}, propertyFilters : {<<v>> : v \in PropertyFilters}]
  \cup [eventType : { <<>>, <<"A", "&", "interval", "=", "day">>, <<"A", "#", "B">> },
        propertyFilters : {<<>>}]

Intervals == { <<"day">>, <<"year">> }

TextValues == { <<>>, <<"country">> }

Filters == { << [type |-> <<"user">>, propertyName |-> <<"plan">>] >> }

Breakdowns == { << [type |-> <<"event">>, propertyName |-> <<"plan">>] >> }

\* the example request of query_events in the README
QueryEventsExample ==
  [events |-> << [eventType |-> <<"user_login">>,
                  propertyFilters |->
                    << << [propertyName |-> <<"device_type">>,
                           value |-> <<"mobile">>, op |-> <<"is">>] >> >>] >>,
   start |-> <<"2023", "-", "01", "-", "01">>,
   end |-> <<"2023", "-", "01", "-", "31">>,
   interval |-> << <<"day">> >>, groupBy |-> <<>>]

\* the example request of segment_events in the README
SegmentEventsExample ==
  [events |-> << [eventType |-> <<"purchase">>, propertyFilters |-> <<>>] >>,
   start |-> <<"2023", "-", "01", "-", "01">>,
   end |-> <<"2023", "-", "01", "-", "31">>,
   interval |-> << <<"week">> >>, groupBy |-> <<>>,
   filters |-> << << [type |-> <<"user">>, propertyName |-> <<"country">>,
                      value |-> <<"US">>, op |-> <<"is">>] >> >>,
   breakdowns |-> << << [type |-> <<"user">>, propertyName |-> <<"device_type">>] >> >>]

QueryEventsInputs ==
  [events : SeqsUpTo(EventDefinitions, MaxEvents), start : StartTexts,
   end : EndTexts, interval : Optional(Intervals), groupBy : Optional(TextValues)]
  \cup {QueryEventsExample}

SegmentEventsInputs ==
  [events : SeqsUpTo(EventDefinitions, MaxEvents), start : StartTexts,
   end : EndTexts, interval : Optional(Intervals), groupBy : Optional(TextValues),
   filters : Optional(Filters), breakdowns : Optional(Breakdowns)]
  \cup {SegmentEventsExample}

\* the schema of query_events, and the part of the schema of segment_events
\* that decides: start and end are matched by /^\d{8}/
QueryEventsSchema(in) ==
  /\ HasRequired("query_events", in)
  /\ Len(in.events) >= 1
  /\ \A j \in 1..Len(in.events) : Len(in.events[j].eventType) >= 1
  /\ MatchesDatePrefix(in.start)
  /\ MatchesDatePrefix(in.end)
  /\ Supplied(in.interval) => Val(in.interval) \in { <<"day">>, <<"week">>, <<"month">> }

ChartIds == { <<"abc123">>, <<>>, <<"abc", "?", "m", "=", "1">> }

GetChartInputs == [chartId : ChartIds]

GetChartSchema(in) == HasRequired("get_chart", in) /\ Len(in.chartId) >= 1

Numbers == {Num(0), Num(7)}

ActiveUsersInputs ==
  [start : StartTexts, end : EndTexts,
   m : Optional({ <<"new">>, <<"old">> }), i : Optional(Numbers),
   s : Optional(TextValues), g : Optional(TextValues)]

ActiveUsersSchema(in) ==
  /\ HasRequired("get_active_users", in)
  /\ MatchesDate(in.start)
  /\ MatchesDate(in.end)
  /\ Supplied(in.m) => Val(in.m) \in { <<"active">>, <<"new">> }

\* the event definitions of a funnel: a plain one, and one whose event type
\* holds the characters that separate parameters
EventTexts ==
  { <<"{\"event_type\":\"_active\"}">>,
    <<"{\"event_type\":\"", "a", "&", "e", "=", "b", "\"}">> }

DashboardInputs ==
  [e : {<<"{\"event_type\":\"_active\"}">>, <<>>}, start : StartTexts, end : EndTexts,
   m : Optional({ <<>>, <<"uniques">> }), i : Optional(Numbers),
   s : Optional(TextValues), g : Optional({ <<"country">> }),
   limit : Optional({Num(0), Num(5)})]

DashboardSchema(in) ==
  /\ HasRequired("event_segmentation_dashboard", in)
  /\ MatchesDate(in.start)
  /\ MatchesDate(in.end)
  /\ Supplied(in.limit) => InRange(Val(in.limit), 1, 1000)

FunnelInputs ==
  [events : SeqsUpTo(EventTexts, MaxFunnelEvents), start : StartTexts, end : EndTexts,
   mode : Optional({ <<"ordered">>, <<"random">> }), i : Optional(Numbers),
   s : Optional(TextValues), g : Optional({ <<"country">> }),
   cs : Optional(Numbers), limit : Optional({Num(5), Num(1001)})]

FunnelSchemaOneEvent(in) ==
  /\ HasRequired("funnel_analysis", in)
  /\ Len(in.events) >= 1
  /\ MatchesDate(in.start)
  /\ MatchesDate(in.end)
  /\ Supplied(in.mode) => Val(in.mode) \in { <<"ordered">>, <<"unordered">>, <<"sequential">> }
  /\ Supplied(in.limit) => InRange(Val(in.limit), 1, 1000)

FunnelSchema(in) ==
  /\ HasRequired("funnel_analysis", in)
  /\ Len(in.events) >= 2
  /\ MatchesDate(in.start)
  /\ MatchesDate(in.end)
  /\ Supplied(in.mode) => Val(in.mode) \in { <<"ordered">>, <<"unordered">>, <<"sequential">> }
  /\ Supplied(in.limit) => InRange(Val(in.limit), 1, 1000)

RetentionInputs ==
  [se : {<<"{\"event_type\":\"_new\"}">>}, re : {<<"{\"event_type\":\"_active\"}">>},
   start : StartTexts, end : EndTexts,
   rm : Optional({ <<"bracket">>, <<"daily">> }),
   rb : Optional({ <<>>, <<"[0,4]">> }), i : Optional(Numbers),
   s : Optional({ <<"seg">> }), g : Optional(TextValues)]

RetentionSchema(in) ==
  /\ HasRequired("retention_analysis", in)
  /\ MatchesDate(in.start)
  /\ MatchesDate(in.end)
  /\ Supplied(in.rm) => Val(in.rm) \in { <<"bracket">>, <<"rolling">>, <<"n-day">> }

UserActivityInputs ==
  [user : { <<"12345">>, <<>> }, offset : Optional({Num(-1), Num(0), Num(5)}),
   limit : Optional({Num(0), Num(100), Num(1001)}),
   direction : Optional({ <<"earliest">>, <<"newest">> })]

UserActivitySchema(in) ==
  /\ HasRequired("get_user_activity", in)
  /\ Len(in.user) >= 1
  /\ Supplied(in.offset) => Val(in.offset) >= Num(0)
  /\ Supplied(in.limit) => InRange(Val(in.limit), 1, 1000)
  /\ Supplied(in.direction) => Val(in.direction) \in { <<"earliest">>, <<"latest">> }

NoInput == [none : {<<>>}]

AnnotationInputs ==
  [app_id : {Num(0), Num(123)},
   date : { <<"2023", "-", "01", "-", "31">>, <<"20230131">> },
   label : { <<"release">>, <<>>, <<"a", "&", "b">> },
   chart_id : Optional(TextValues), details : Optional(TextValues)]

AnnotationSchema(in) ==
  /\ HasRequired("create_annotation", in)
  /\ MatchesAnnotationDate(in.date)
  /\ Len(in.label) >= 1

GetAnnotationInputs == [id : {Num(0), Num(7), Half(7)}]

GetAnnotationSchema(in) == HasRequired("get_annotation", in)

\* the optional parameters of each tool
OptionalParams(name) ==
  CASE name = "query_events" -> {"interval", "groupBy"}
    [] name = "segment_events" -> {"interval", "groupBy", "filters", "breakdowns"}
    [] name = "export_events" -> {"limit"}
    [] name = "get_active_users" -> {"m", "i", "s", "g"}
    [] name = "event_segmentation_dashboard" -> {"m", "i", "s", "g", "limit"}
    [] name = "funnel_analysis" -> {"mode", "i", "s", "g", "cs", "limit"}
    [] name = "retention_analysis" -> {"rm", "rb", "i", "s", "g"}
    [] name = "get_user_activity" -> {"offset", "limit", "direction"}
    [] name = "create_annotation" -> {"chart_id", "details"}
    [] OTHER -> {}

\* the inputs that lack one required field: inputs the schema accepts
\* (valid) and that supply no optional field, with one required field taken
\* away
Incomplete(name, valid) ==
  {Without(r, f) :
     r \in {x \in valid : \A o \in OptionalParams(name) : x[o] = <<>>},
     f \in RequiredFields(name)}

\* the required parameters of each tool that the service method sends
RequiredParams(name) ==
  CASE name = "query_events" -> {"e", "start", "end"}
    [] name = "segment_events" -> {"e", "start", "end"}
    [] name = "export_events" -> {"start", "end"}
    [] name = "get_active_users" -> {"start", "end"}
    [] name = "event_segmentation_dashboard" -> {"e", "start", "end"}
    [] name = "funnel_analysis" -> {"e", "start", "end"}
    [] name = "retention_analysis" -> {"se", "re", "start", "end"}
    [] name = "get_user_activity" -> {"user"}
    [] name = "create_annotation" -> {"app_id", "date", "label"}
    [] name = "get_annotation" -> {"id"}
    [] OTHER -> {}

(***************************************************************************)
(* The responses of the Amplitude API to the methods that decode JSON.     *)
(***************************************************************************)
JsonResponses ==
  {NetworkFailure}
  \cup {HttpResponse(200, StatusText(200), FALSE, b) :
          b \in { <<"{\"data\":[]}">>, <<"<html>">> }}
  \cup {HttpResponse(st, StatusText(st), FALSE, b) :
          st \in {404, 500}, b \in ErrorBodies}
  \cup {HttpResponse(500, <<>>, FALSE, <<>>)}

QueryEventsResponses ==
  JsonResponses
  \cup {HttpResponse(st, StatusText(st), FALSE, b) :
          st \in {404, 500},
          b \in { <<"{\"error\":\"Invalid API key\"}">>, <<"{\"code\":500}">>,
                  <<"null">> }}
  \cup {HttpResponse(500, <<>>, FALSE, <<"{\"code\":500}">>)}

(***************************************************************************)
(* Actions.                                                                *)
(***************************************************************************)
\* what the command line and the environment of the process can hold
NoArgs == [apiKey |-> <<>>, secretKey |-> <<>>]

NoEnv == [AMPLITUDE_API_KEY |-> <<>>, AMPLITUDE_SECRET_KEY |-> <<>>]

CliKeys == [apiKey |-> << <<"k">> >>, secretKey |-> << <<"s">> >>]

EnvKeys ==
  [AMPLITUDE_API_KEY |-> << <<"a", "b">> >>,
   AMPLITUDE_SECRET_KEY |-> << <<"c", "d">> >>]

\* the configurations the server is started with: both keys on the command
\* line, both in the environment, the secret key nowhere, the secret key
\* empty, no key at all
Configs ==
  { [argv |-> CliKeys, env |-> NoEnv],
    [argv |-> NoArgs, env |-> EnvKeys],
    [argv |-> [apiKey |-> << <<"k">> >>, secretKey |-> <<>>], env |-> NoEnv],
    [argv |-> NoArgs,
     env |-> [AMPLITUDE_API_KEY |-> << <<"a", "b">> >>,
              AMPLITUDE_SECRET_KEY |-> << <<>> >>]],
    [argv |-> NoArgs, env |-> NoEnv] }

\* every way of holding, holding empty or not holding each key
AllConfigs ==
  [argv : [apiKey : Optional({<<>>, <<"k">>}),
           secretKey : Optional({<<>>, <<"s">>})],
   env : [AMPLITUDE_API_KEY : Optional({<<>>, <<"a", "b">>}),
          AMPLITUDE_SECRET_KEY : Optional({<<>>, <<"c", "d">>})]]

\* no server yet
NoServer ==
  [created |-> FALSE, tools |-> <<>>, resources |-> <<>>, connected |-> FALSE]

\* new McpServer({name: "amplitude-mcp", version: "0.0.1"})
McpServer == [NoServer EXCEPT !.created = TRUE]

registerTool(s, name) == [s EXCEPT !.tools = Append(@, name)]

registerResource(s, name) == [s EXCEPT !.resources = Append(@, name)]

\* server.connect(transport)
connect(s) == [s EXCEPT !.connected = TRUE]

\* the tools in the order of their registration
ToolNames ==
  <<"query_events", "segment_events", "export_events", "get_chart",
    "get_active_users", "event_segmentation_dashboard", "funnel_analysis",
    "retention_analysis", "get_user_activity", "get_events_list",
    "create_annotation", "get_all_annotations", "get_annotation">>

RECURSIVE WithTools(_, _)
\* the server after the first n calls of registerTool
WithTools(s, n) ==
  IF n = 0 THEN s ELSE registerTool(WithTools(s, n - 1), ToolNames[n])

\* the server when the module body has run to its end
Registered ==
  connect(registerResource(WithTools(McpServer, Len(ToolNames)), "amplitude_events"))

Started(configs) ==
  /\ pc = "starting"
  /\ tool = "none"
  /\ input = <<>>
  /\ requests = <<>>
  /\ response = NoResponse
  /\ outcome = NoOutcome
  /\ envelope = NoEnvelope
  /\ \E c \in configs : argv = c.argv /\ env = c.env
  /\ stderr = <<>>
  /\ calls = <<>>
  /\ server = NoServer
  /\ exitCode = <<>>

Init == Started(Configs)

\* the lines the module writes to stderr when the credentials are there
\* (the check marks that start the lines are left out)
ReadyLines ==
  << <<"Amplitude MCP Server initializing...">>,
     <<"Credentials loaded successfully">>,
     <<"MCP Server created">>,
     <<"Registered 13 tools">>,
     <<"Registered 1 resource: amplitude_events">>,
     <<"Server connected and ready on stdio transport">>,
     <<"Amplitude MCP Server is running. Waiting for requests...">> >>

FailedLinesWithKey(message) ==
  << <<"Amplitude MCP Server initializing...">>,
     <<"Failed to load credentials:", " ">> \o message \o <<" apiKey=">>
       \o (IF Supplied(argv.apiKey) THEN Val(argv.apiKey) ELSE <<>>) >>

\* the lines before process.exit(1)
FailedLines(message) ==
  << <<"Amplitude MCP Server initializing...">>,
     <<"Failed to load credentials:", " ">> \o message >>

\* the module is loaded: the credentials are resolved once, the process
\* exits when they are missing, else the tools are registered and the server
\* is connected
startup ==
  /\ pc = "starting"
  /\ LET c == getAmplitudeCredentials(argv, env)
     IN  IF c.kind = "throw"
         THEN /\ pc' = "exited"
              /\ stderr' = FailedLines(c.message)
              /\ exitCode' = <<1>>
              /\ server' = server
         ELSE /\ pc' = "idle"
              /\ stderr' = ReadyLines
              /\ exitCode' = exitCode
              /\ server' = Registered
  /\ UNCHANGED <<tool, input, requests, response, outcome, envelope,
                 argv, env, calls>>

Ready == pc = "idle"

\* the protocol layer refuses the input
Reject(name, in) ==
  /\ pc' = "rejected"
  /\ tool' = name
  /\ input' = in
  /\ requests' = <<>>
  /\ response' = NoResponse
  /\ outcome' = NoOutcome
  /\ envelope' = InvalidArguments
  /\ stderr' = <<>>
  /\ UNCHANGED <<argv, env, calls, server, exitCode>>

SendClearingKeys(name, in, req) ==
  /\ pc' = "awaiting"
  /\ tool' = name
  /\ input' = in
  /\ requests' = <<req>>
  /\ response' = NoResponse
  /\ outcome' = NoOutcome
  /\ envelope' = NoEnvelope
  /\ stderr' = <<>>
  /\ argv' = NoArgs
  /\ env' = NoEnv
  /\ UNCHANGED <<calls, server, exitCode>>

\* the handler runs up to the fetch of its service method
Send(name, in, req) ==
  /\ pc' = "awaiting"
  /\ tool' = name
  /\ input' = in
  /\ requests' = <<req>>
  /\ response' = NoResponse
  /\ outcome' = NoOutcome
  /\ envelope' = NoEnvelope
  /\ stderr' = <<>>
  /\ UNCHANGED <<argv, env, calls, server, exitCode>>

\* getAmplitudeCredentials throws in the handler: the catch block of the
\* handler returns, the service method is not called
NoCredentials(name, in, message) ==
  /\ pc' = "done"
  /\ tool' = name
  /\ input' = in
  /\ requests' = <<>>
  /\ response' = NoResponse
  /\ outcome' = NoOutcome
  /\ envelope' = Failure(ErrorPrefix(name) \o message)
  /\ stderr' = <<>>
  /\ UNCHANGED <<argv, env, calls, server, exitCode>>

\* the handler: the credentials, then the service method with its request
Handle(name, in, method, url) ==
  LET c == getAmplitudeCredentials(argv, env)
  IN  IF c.kind = "throw"
      THEN NoCredentials(name, in, c.message)
      ELSE Send(name, in, fetch(method, url, buildHeaders(c.value)))

\* console.error in the loop over the lines of exportEvents
exportEventsLog(resp) ==
  IF resp.kind = "http" /\ ok(resp) /\ resp.gzip
  THEN LET bad == SelectSeq(SelectSeq(Split(resp.body, "\n"), NonBlank),
                            LAMBDA line : ~Parses(line))
       IN  [i \in 1..Len(bad) |->
              <<"Failed to parse event line:", " ">> \o SyntaxErrorMessage]
  ELSE <<>>

SettleWithRetry(resp, r, env_) ==
  IF r.kind = "throw" /\ Len(requests) < 2
  THEN /\ pc' = "awaiting"
       /\ requests' = Append(requests, requests[1])
       /\ UNCHANGED <<tool, input, response, outcome, envelope, stderr,
                      argv, env, calls, server, exitCode>>
  ELSE /\ pc' = "done"
       /\ response' = resp
       /\ outcome' = r
       /\ envelope' = env_
       /\ stderr' = IF tool = "export_events" THEN exportEventsLog(resp) ELSE <<>>
       /\ UNCHANGED <<tool, input, requests, argv, env, calls, server, exitCode>>

\* the fetch settles, the service method and the handler run to their end
Settle(resp, r, env_) ==
  /\ pc' = "done"
  /\ response' = resp
  /\ outcome' = r
  /\ envelope' = env_
  /\ stderr' = IF tool = "export_events" THEN exportEventsLog(resp) ELSE <<>>
  /\ UNCHANGED <<tool, input, requests, argv, env, calls, server, exitCode>>

query_events ==
  /\ Ready
  /\ \E in \in QueryEventsInputs
               \cup Incomplete("query_events", {x \in QueryEventsInputs : QueryEventsSchema(x)}) :
       IF QueryEventsSchema(in)
       THEN Handle("query_events", in, "GET", queryEventsUrl(in))
       ELSE Reject("query_events", in)

segment_events ==
  /\ Ready
  /\ \E in \in SegmentEventsInputs
               \cup Incomplete("segment_events", {x \in SegmentEventsInputs : QueryEventsSchema(x)}) :
       IF QueryEventsSchema(in)
       THEN Handle("segment_events", in, "GET", queryEventsUrl(in))
       ELSE Reject("segment_events", in)

export_eventsSendingLimit ==
  /\ Ready
  /\ \E in \in ExportInputs
               \cup Incomplete("export_events", {x \in ExportInputs : ExportSchema(x)}) :
       IF ExportSchema(in)
       THEN Handle("export_events", in,
                   "GET", exportUrl([start |-> in.start, end |-> in.end])
                     \o (IF Supplied(in.limit)
                         THEN <<"&", "limit", "=", "1">> ELSE <<>>))
       ELSE Reject("export_events", in)

export_events ==
  /\ Ready
  /\ \E in \in ExportInputs
               \cup Incomplete("export_events", {x \in ExportInputs : ExportSchema(x)}) :
       IF ExportSchema(in)
       THEN Handle("export_events", in,
                   "GET", exportUrl([start |-> in.start, end |-> in.end]))
       ELSE Reject("export_events", in)

get_chart ==
  /\ Ready
  /\ \E in \in GetChartInputs
               \cup Incomplete("get_chart", {x \in GetChartInputs : GetChartSchema(x)}) :
       IF GetChartSchema(in)
       THEN Handle("get_chart", in, "GET", getChartUrl(in.chartId))
       ELSE Reject("get_chart", in)

get_active_users ==
  /\ Ready
  /\ \E in \in ActiveUsersInputs
               \cup Incomplete("get_active_users", {x \in ActiveUsersInputs : ActiveUsersSchema(x)}) :
       IF ActiveUsersSchema(in)
       THEN Handle("get_active_users", in, "GET", getActiveUsersUrl(in))
       ELSE Reject("get_active_users", in)

event_segmentation_dashboard ==
  /\ Ready
  /\ \E in \in DashboardInputs
               \cup Incomplete("event_segmentation_dashboard", {x \in DashboardInputs : DashboardSchema(x)}) :
       IF DashboardSchema(in)
       THEN Handle("event_segmentation_dashboard", in,
                   "GET", getEventSegmentationDashboardUrl(in))
       ELSE Reject("event_segmentation_dashboard", in)

funnel_analysis ==
  /\ Ready
  /\ \E in \in FunnelInputs
               \cup Incomplete("funnel_analysis", {x \in FunnelInputs : FunnelSchema(x)}) :
       IF FunnelSchema(in)
       THEN Handle("funnel_analysis", in, "GET", getFunnelAnalysisUrl(in))
       ELSE Reject("funnel_analysis", in)

retention_analysis ==
  /\ Ready
  /\ \E in \in RetentionInputs
               \cup Incomplete("retention_analysis", {x \in RetentionInputs : RetentionSchema(x)}) :
       IF RetentionSchema(in)
       THEN Handle("retention_analysis", in, "GET", getRetentionAnalysisUrl(in))
       ELSE Reject("retention_analysis", in)

get_user_activity ==
  /\ Ready
  /\ \E in \in UserActivityInputs
               \cup Incomplete("get_user_activity", {x \in UserActivityInputs : UserActivitySchema(x)}) :
       IF UserActivitySchema(in)
       THEN Handle("get_user_activity", in, "GET", getUserActivityUrl(in))
       ELSE Reject("get_user_activity", in)

get_events_list ==
  /\ Ready
  /\ \E in \in NoInput :
       Handle("get_events_list", in, "GET", getEventsListUrl)

create_annotation ==
  /\ Ready
  /\ \E in \in AnnotationInputs
               \cup Incomplete("create_annotation", {x \in AnnotationInputs : AnnotationSchema(x)}) :
       IF AnnotationSchema(in)
       THEN Handle("create_annotation", in, "POST", createAnnotationUrl(in))
       ELSE Reject("create_annotation", in)

get_all_annotations ==
  /\ Ready
  /\ \E in \in NoInput :
       Handle("get_all_annotations", in, "GET", getAllAnnotationsUrl)

get_annotation ==
  /\ Ready
  /\ \E in \in GetAnnotationInputs
               \cup Incomplete("get_annotation", {x \in GetAnnotationInputs : GetAnnotationSchema(x)}) :
       IF GetAnnotationSchema(in)
       THEN Handle("get_annotation", in, "GET", getAnnotationUrl(in.id))
       ELSE Reject("get_annotation", in)

\* fetch settles in queryEvents; query_events or segment_events returns
queryEventsSettles ==
  /\ pc = "awaiting"
  /\ tool \in {"query_events", "segment_events"}
  /\ \E resp \in QueryEventsResponses :
       Settle(resp, queryEvents(resp), jsonEnvelope(tool, queryEvents(resp)))

\* fetch settles in exportEvents; export_events returns
exportEventsSettles ==
  /\ pc = "awaiting"
  /\ tool = "export_events"
  /\ \E resp \in ExportResponses :
       Settle(resp, exportEvents(resp), exportEnvelope(input, exportEvents(resp)))

\* fetch settles in one of the other service methods; its handler returns
jsonServiceSettles ==
  /\ pc = "awaiting"
  /\ tool \notin {"query_events", "segment_events", "export_events"}
  /\ \E resp \in JsonResponses :
       Settle(resp, jsonService(tool, resp), jsonEnvelope(tool, jsonService(tool, resp)))

\* the envelope goes back to the client; the server waits for the next call
Respond ==
  /\ pc \in {"rejected", "done"}
  /\ pc' = "idle"
  /\ tool' = "none"
  /\ input' = <<>>
  /\ requests' = <<>>
  /\ response' = NoResponse
  /\ outcome' = NoOutcome
  /\ envelope' = NoEnvelope
  /\ stderr' = <<>>
  /\ UNCHANGED <<argv, env, calls, server, exitCode>>

Next ==
  \/ startup
  \/ query_events
  \/ segment_events
  \/ export_events
  \/ get_chart
  \/ get_active_users
  \/ event_segmentation_dashboard
  \/ funnel_analysis
  \/ retention_analysis
  \/ get_user_activity
  \/ get_events_list
  \/ create_annotation
  \/ get_all_annotations
  \/ get_annotation
  \/ queryEventsSettles
  \/ exportEventsSettles
  \/ jsonServiceSettles
  \/ Respond

Spec == Init /\ [][Next]_vars

(***************************************************************************)
(* What a request carries, as the server that receives it reads it: the    *)
(* query string starts after the first "?", its parameters are separated   *)
(* by "&", and the key of a parameter ends at its first "=".               *)
(***************************************************************************)
DecodeAtom(atom) ==
  CASE atom = "%26" -> "&"
    [] atom = "%3D" -> "="
    [] atom = "%23" -> "#"
    [] atom = "%3F" -> "?"
    [] atom = "%22" -> "\""
    [] atom = "+" -> " "
    [] OTHER -> atom

FormDecode(t) == [i \in 1..Len(t) |-> DecodeAtom(t[i])]

FirstIndex(t, sep) ==
  IF \E i \in 1..Len(t) : t[i] = sep
  THEN CHOOSE i \in 1..Len(t) : t[i] = sep /\ \A j \in 1..(i - 1) : t[j] # sep
  ELSE Len(t) + 1

BeforeFirst(t, sep) == SubSeq(t, 1, FirstIndex(t, sep) - 1)

AfterFirst(t, sep) == SubSeq(t, FirstIndex(t, sep) + 1, Len(t))

NonEmpty(t) == t # <<>>

QueryParams(url) ==
  LET pieces == SelectSeq(Split(AfterFirst(url, "?"), "&"), NonEmpty)
  IN  [i \in 1..Len(pieces) |->
         [k |-> FormDecode(BeforeFirst(pieces[i], "=")),
          v |-> FormDecode(AfterFirst(pieces[i], "="))]]

\* the number of parameters of the request whose key is k
KeyCount(url, k) ==
  Cardinality({i \in 1..Len(QueryParams(url)) : QueryParams(url)[i].k = <<k>>})

\* the values of the parameters of the request whose key is k, in order
ValuesOf(url, k) ==
  LET ps == SelectSeq(QueryParams(url), LAMBDA q : q.k = <<k>>)
  IN  [i \in 1..Len(ps) |-> ps[i].v]

Returned == pc = "done"

ExportReturned == pc = "done" /\ tool = "export_events"

Summary(total, returned) ==
  <<"Raw event data exported successfully. Total events: ", ToString(total),
    ", Returned: ", ToString(returned)>>

(***************************************************************************)
(* C1  exportEvents: when the response has status 404 the method returns   *)
(* the empty sequence and throws nothing, and export_events answers with   *)
(* the success envelope of 0 events, never with an error envelope.         *)
(***************************************************************************)
C1_NotFoundIsEmptyExport ==
  (ExportReturned /\ response.kind = "http" /\ response.status = 404) =>
    /\ outcome = Return(<<>>)
    /\ envelope = Success(Summary(0, 0), <<"[", "]">>)

C1_Witness ==
  /\ ExportReturned
  /\ response.kind = "http" /\ response.status = 404 /\ response.body # <<>>
  /\ envelope.isError = FALSE

(***************************************************************************)
(* C2  exportEvents: status 400 always throws the failure that advises to  *)
(* shorten the time range and status 504 the failure that advises the      *)
(* large-data path; no records are returned, whatever the body holds.      *)
(***************************************************************************)
C2_ExportStatusAdvice ==
  (ExportReturned /\ response.kind = "http" /\ response.status \in {400, 504}) =>
    /\ outcome.kind = "throw"
    /\ outcome.value = <<>>
    /\ envelope.isError
    /\ response.status = 400 =>
         /\ Includes(outcome.message, <<"Shorten the time range and try again.">>)
         /\ Includes(envelope.content[1], <<"Shorten the time range and try again.">>)
    /\ response.status = 504 =>
         /\ Includes(outcome.message,
                     <<"For large amounts of data, use the Amazon S3 destination.">>)
         /\ Includes(envelope.content[1],
                     <<"For large amounts of data, use the Amazon S3 destination.">>)

C2_Witness ==
  /\ ExportReturned
  /\ response.kind = "http" /\ response.status = 400 /\ response.body # <<>>
  /\ outcome.kind = "throw"

(***************************************************************************)
(* C3  exportEvents on a 2xx response whose body decompresses: the         *)
(* sequence returned is exactly the parsed values of the non-blank lines   *)
(* that parse as JSON, in the order of the lines; a line that does not     *)
(* parse is skipped and the call still returns.                            *)
(***************************************************************************)
\* the indices of the lines that are not blank and parse
GoodLines(lines) == {i \in 1..Len(lines) : NonBlank(lines[i]) /\ Parses(lines[i])}

\* the position in the result of the line i, good being the good lines
Rank(good, i) == Cardinality({j \in good : j <= i})

C3_ExportDecodesGoodLines ==
  (ExportReturned /\ response.kind = "http" /\ ok(response) /\ response.gzip) =>
    LET lines == Split(response.body, "\n")
        good == GoodLines(lines)
    IN  /\ outcome.kind = "return"
        /\ Len(outcome.value) = Cardinality(good)
        /\ \A i \in good : outcome.value[Rank(good, i)] = JSONparse(lines[i])

C3_Witness ==
  /\ ExportReturned /\ response.kind = "http" /\ ok(response) /\ response.gzip
  /\ outcome.kind = "return"
  /\ LET lines == Split(response.body, "\n")
     IN  \E i, j \in 1..Len(lines) :
           /\ i < j
           /\ NonBlank(lines[i]) /\ ~Parses(lines[i])
           /\ Parses(lines[j])

(***************************************************************************)
(* C4  export_events: for a decoded sequence of N records the payload is   *)
(* the first min(N, limit) records when a limit is supplied and the first  *)
(* min(N, 1000) records when none is.                                      *)
(* As amended: with a limit supplied the payload is the first              *)
(* min(N, floor(limit)) records; the schema accepts limits that are not    *)
(* whole numbers, and slice truncates them.                                *)
(***************************************************************************)
Payload == envelope.content[2]

FirstRecords(k) == StringifyArray(SubSeq(outcome.value, 1, k))

\* the claim as stated: the number of records returned is min(N, limit)
C4_Original ==
  (ExportReturned /\ outcome.kind = "return") =>
    LET N == Len(outcome.value)
    IN  IF Supplied(input.limit)
        THEN \E k \in 0..N : /\ Num(k) = Min(Num(N), Val(input.limit))
                             /\ Payload = FirstRecords(k)
        ELSE Payload = FirstRecords(Min(N, 1000))

C4_ExportLimit ==
  (ExportReturned /\ outcome.kind = "return") =>
    LET N == Len(outcome.value)
    IN  IF Supplied(input.limit)
        THEN Payload = FirstRecords(Min(N, Val(input.limit) \div 2))
        ELSE Payload = FirstRecords(Min(N, 1000))

C4_Witness ==
  /\ ExportReturned /\ outcome.kind = "return"
  /\ Supplied(input.limit) /\ Val(input.limit) = Half(2)
  /\ Len(outcome.value) = 3
  /\ Payload = FirstRecords(2)

(***************************************************************************)
(* C5  Every operation, every optional parameter: when the parameter is    *)
(* absent from the input, the query string of the outgoing request holds   *)
(* no key for it.                                                          *)
(***************************************************************************)
Sent == pc \in {"awaiting", "done"}

SentUrl == requests[1].url

C5_AbsentOptionalHasNoKey ==
  Sent =>
    \A p \in OptionalParams(tool) :
      ~Supplied(input[p]) => KeyCount(SentUrl, p) = 0

(***************************************************************************)
(* C6  Every operation, every schema-valid input: the query string holds   *)
(* exactly the keys of the required parameters and of the optional         *)
(* parameters that were supplied, each once (the list-valued e of the      *)
(* funnel may repeat), whatever value the schema accepts for a supplied    *)
(* optional parameter.  The limit of export_events is applied by the       *)
(* handler and is no parameter of the request.                             *)
(***************************************************************************)
SentOptionalParams(name) ==
  IF name = "export_events" THEN {} ELSE OptionalParams(name)

C6_QueryHasExactlySuppliedKeys ==
  Sent =>
    /\ \A p \in RequiredParams(tool) :
         IF tool = "funnel_analysis" /\ p = "e"
         THEN KeyCount(SentUrl, p) = Len(input.events)
         ELSE KeyCount(SentUrl, p) = 1
    /\ \A p \in SentOptionalParams(tool) :
         Supplied(input[p]) => KeyCount(SentUrl, p) = 1
    /\ \A i \in 1..Len(QueryParams(SentUrl)) :
         \E p \in RequiredParams(tool) \cup SentOptionalParams(tool) :
           /\ QueryParams(SentUrl)[i].k = <<p>>
           /\ p \in SentOptionalParams(tool) => Supplied(input[p])

(***************************************************************************)
(* C7  Every tool that takes a day (query_events, segment_events,          *)
(* get_active_users, event_segmentation_dashboard, funnel_analysis,        *)
(* retention_analysis): when start or end is not exactly a string of 8     *)
(* digits the input is rejected and no request is issued.                  *)
(***************************************************************************)
\* the field f of an input, empty when the input lacks it
Field(in, f) == IF f \in DOMAIN in THEN in[f] ELSE <<>>

DateOnlyTools ==
  {"query_events", "segment_events", "get_active_users",
   "event_segmentation_dashboard", "funnel_analysis", "retention_analysis"}

C7_DateOnlyRejected ==
  (tool \in DateOnlyTools
   /\ ~(MatchesDate(Field(input, "start")) /\ MatchesDate(Field(input, "end")))) =>
    (pc = "rejected" /\ requests = <<>>)

(***************************************************************************)
(* C8  export_events: when start or end is not YYYYMMDDTHH with HH an hour *)
(* of the 24-hour clock (00 to 23) the input is rejected before any        *)
(* request.                                                                *)
(***************************************************************************)
Hours == {IF h < 10 THEN "0" \o ToString(h) ELSE ToString(h) : h \in 0..23}

IsHourOfDay(t) == MatchesExportTime(t) /\ t[3] \in Hours

C8_ExportHourRejected ==
  (tool = "export_events"
   /\ ~(IsHourOfDay(Field(input, "start")) /\ IsHourOfDay(Field(input, "end")))) =>
    (pc = "rejected" /\ requests = <<>>)

(***************************************************************************)
(* C9  queryEvents: for a non-empty list of events the parameter e of the  *)
(* outgoing request is {"event_type":"<eventType of events[0]>"}, and no   *)
(* later event and no property filter appears in the request.              *)
(***************************************************************************)
EventFragment(eventType) == <<"{\"event_type\":\"">> \o eventType \o <<"\"}">>

C9_FirstEventOnly ==
  (Sent /\ tool \in {"query_events", "segment_events"}) =>
    /\ ValuesOf(SentUrl, "e") = << EventFragment(input.events[1].eventType) >>
    /\ \A j \in 2..Len(input.events) :
         \/ ~Includes(SentUrl, input.events[j].eventType)
         \/ Includes(input.events[1].eventType, input.events[j].eventType)
    /\ ~Includes(SentUrl, <<"plan">>)

(***************************************************************************)
(* C10  Every operation: a response whose status is not 2xx and is not one *)
(* of the special cases of the export (404, 400, 504) gives a failure      *)
(* whose message is not empty and holds the text of the body, or the       *)
(* status text when the body is empty; for queryEvents, whose error body   *)
(* is read as {error, code?, message?}, the text of the API is the member  *)
(* error, and the same must hold when the body is not JSON.                *)
(***************************************************************************)
PlainError ==
  /\ Returned
  /\ response.kind = "http" /\ ~ok(response)
  /\ ~(tool = "export_events" /\ response.status \in {400, 404, 504})

\* the text of the API a failure is to carry
ApiText ==
  IF tool \in {"query_events", "segment_events"} /\ Parses(response.body)
  THEN IF TruthyText(ErrorMember(JSONparse(response.body)))
       THEN ErrorMember(JSONparse(response.body))
       ELSE response.statusText
  ELSE IF response.body # <<>> THEN response.body ELSE response.statusText

C10_FailureCarriesApiText ==
  PlainError =>
    /\ outcome.kind = "throw"
    /\ outcome.message # <<>>
    /\ Includes(outcome.message, ApiText)
    /\ envelope.isError

(***************************************************************************)
(* C11.  An invocation of a handler ends by returning one envelope and     *)
(* never by throwing.  The envelope stays empty while the request is in    *)
(* flight.  When the credentials were resolved and the service method      *)
(* returned, the envelope has no error flag and holds two items, the       *)
(* summary and the payload; in every other case it has the error flag and  *)
(* holds one item, the message that starts with the prefix of the tool.    *)
(***************************************************************************)
StartsWith(t, prefix) ==
  Len(t) >= Len(prefix) /\ SubSeq(t, 1, Len(prefix)) = prefix

C11_OneEnvelopePerInvocation ==
  /\ pc = "awaiting" => envelope = NoEnvelope
  /\ Returned =>
       /\ envelope.isError
            <=> ~(getAmplitudeCredentials(argv, env).kind = "return"
                  /\ outcome.kind = "return")
       /\ envelope.isError =>
            /\ Len(envelope.content) = 1
            /\ StartsWith(envelope.content[1], ErrorPrefix(tool))
            /\ Len(envelope.content[1]) > Len(ErrorPrefix(tool))
       /\ ~envelope.isError =>
            /\ Len(envelope.content) = 2
            /\ envelope.content[1] # <<>>
            /\ envelope.content[2] # <<>>

\* the network fails under get_chart: the handler still returns an envelope
C11_Witness ==
  /\ Returned
  /\ tool = "get_chart"
  /\ response.kind = "neterr"
  /\ envelope.isError
  /\ Len(envelope.content) = 1

(***************************************************************************)
(* C12.  A service method that was called ends in one of two ways.  It     *)
(* throws when the network failed, when the status is not 2xx (but for the *)
(* 404 of the export), when the body of an export is not gzip, or when the *)
(* 2xx body of another operation is not valid JSON: then the outcome has   *)
(* no value, and its one message is the prefix 'Failed to <operation>: '   *)
(* followed by a cause that is not empty.  Otherwise it returns the        *)
(* decoded payload and no message.                                         *)
(***************************************************************************)
OperationPrefix(name) ==
  CASE name \in {"query_events", "segment_events"} -> <<"Failed to query events: ">>
    [] name = "export_events" -> <<"Failed to export events: ">>
    [] OTHER -> FailedTo(name)

FailureOrigin(name, resp) ==
  \/ resp.kind = "neterr"
  \/ resp.kind = "http" /\ ~ok(resp) /\ ~(name = "export_events" /\ resp.status = 404)
  \/ resp.kind = "http" /\ ok(resp) /\ name = "export_events" /\ ~resp.gzip
  \/ resp.kind = "http" /\ ok(resp) /\ name # "export_events" /\ ~Parses(resp.body)

C12_ReturnsPayloadOrThrowsFailedTo ==
  Returned =>
    /\ outcome.kind \in {"return", "throw"}
    /\ outcome.kind = "throw" <=> FailureOrigin(tool, response)
    /\ outcome.kind = "throw" =>
         /\ outcome.value = <<>>
         /\ StartsWith(outcome.message, OperationPrefix(tool))
         /\ Len(outcome.message) > Len(OperationPrefix(tool))
         /\ \E i \in (Len(OperationPrefix(tool)) + 1)..Len(outcome.message) :
              outcome.message[i] # ""
    /\ outcome.kind = "return" =>
         /\ outcome.message = <<>>
         /\ tool # "export_events" => outcome.value = JSONparse(response.body)
         /\ tool = "export_events" =>
              \A i \in 1..Len(outcome.value) :
                outcome.value[i].type \in {"object", "number", "null"}

\* a 200 whose body is not JSON, under get_active_users
C12_Witness ==
  /\ Returned
  /\ tool = "get_active_users"
  /\ response.kind = "http"
  /\ response.status = 200
  /\ ~Parses(response.body)
  /\ outcome.kind = "throw"
  /\ StartsWith(outcome.message, <<"Failed to get active users: ">>)

(***************************************************************************)
(* C13.  An invocation whose handler runs sends one request: while the     *)
(* request is in flight and after the handler returned, exactly one        *)
(* request has left; an invocation the protocol layer refused has sent     *)
(* none.  When the request settles, the handler returns in the same step   *)
(* without a further request, and a failed request gives the error         *)
(* envelope at once.                                                       *)
(***************************************************************************)
C13_OneRequestPerInvocation ==
  [][ /\ pc' \in {"awaiting", "done"} => Len(requests') = 1
      /\ pc' \notin {"awaiting", "done"} => requests' = <<>>
      /\ pc = "awaiting" =>
           /\ pc' = "done"
           /\ requests' = requests
           /\ FailureOrigin(tool, response') => envelope'.isError
    ]_vars

\* a 500 under export_events: one request, and the error envelope
C13_Witness ==
  /\ Returned
  /\ tool = "export_events"
  /\ response.kind = "http"
  /\ response.status = 500
  /\ Len(requests) = 1
  /\ envelope.isError

(***************************************************************************)
(* C14.  An input that violates a declared constraint of its tool (a       *)
(* required field is missing, a funnel has fewer than 2 events, the event  *)
(* list of query_events or segment_events is empty or holds an empty       *)
(* eventType, a limit is outside its range, an offset is below 0, a value  *)
(* is outside its enumeration, the date of create_annotation is not        *)
(* YYYY-MM-DD) is refused: the handler and the service method do not run   *)
(* and no request is sent.                                                 *)
(***************************************************************************)
\* four digits, a dash, two digits, a dash, two digits
IsYearMonthDay(t) ==
  /\ Len(t) = 5
  /\ t[2] = "-" /\ t[4] = "-"
  /\ \A i \in {1, 3, 5} : t[i] \in Digits
  /\ Len(t[1]) = 4 /\ Len(t[3]) = 2 /\ Len(t[5]) = 2

OutsideEnum(in, f, values) == Supplied(in[f]) /\ Val(in[f]) \notin values

LimitOutside(in, lo, hi) ==
  Supplied(in.limit) /\ ~(Val(in.limit) >= Num(lo) /\ Val(in.limit) <= Num(hi))

ViolatesConstraint(name, in) ==
  \/ \E f \in RequiredFields(name) : f \notin DOMAIN in
  \/ name = "funnel_analysis" /\ Len(in.events) < 2
  \/ /\ name \in {"query_events", "segment_events"}
     /\ \/ in.events = <<>>
        \/ \E j \in 1..Len(in.events) : in.events[j].eventType = <<>>
  \/ name = "export_events" /\ LimitOutside(in, 1, 10000)
  \/ /\ name \in {"event_segmentation_dashboard", "funnel_analysis", "get_user_activity"}
     /\ LimitOutside(in, 1, 1000)
  \/ name = "get_user_activity" /\ Supplied(in.offset) /\ Val(in.offset) < Num(0)
  \/ /\ name \in {"query_events", "segment_events"}
     /\ OutsideEnum(in, "interval", { <<"day">>, <<"week">>, <<"month">> })
  \/ name = "get_active_users" /\ OutsideEnum(in, "m", { <<"active">>, <<"new">> })
  \/ /\ name = "funnel_analysis"
     /\ OutsideEnum(in, "mode", { <<"ordered">>, <<"unordered">>, <<"sequential">> })
  \/ /\ name = "retention_analysis"
     /\ OutsideEnum(in, "rm", { <<"bracket">>, <<"rolling">>, <<"n-day">> })
  \/ /\ name = "get_user_activity"
     /\ OutsideEnum(in, "direction", { <<"earliest">>, <<"latest">> })
  \/ name = "create_annotation" /\ ~IsYearMonthDay(in.date)

C14_InvalidInputSendsNothing ==
  (tool # "none" /\ ViolatesConstraint(tool, input)) =>
    /\ pc = "rejected"
    /\ requests = <<>>
    /\ outcome = NoOutcome
    /\ envelope = InvalidArguments

\* a funnel of one event is refused
C14_Witness ==
  /\ pc = "rejected"
  /\ tool = "funnel_analysis"
  /\ RequiredFields(tool) \subseteq DOMAIN input
  /\ Len(input.events) = 1
  /\ MatchesDate(input.start)
  /\ MatchesDate(input.end)
  /\ requests = <<>>

(***************************************************************************)
(* C15.  Every request carries the header Authorization, equal to 'Basic ' *)
(* followed by the base64 text of apiKey:secretKey, and the header         *)
(* Content-Type, equal to application/json.  The base64 texts are written  *)
(* out for the two pairs the server is started with: k:s gives azpz and    *)
(* ab:cd gives YWI6Y2Q=, so that the same pair always gives the same       *)
(* headers.                                                                *)
(***************************************************************************)
SentHeaders == requests[1].headers

C15_RequestsCarryBasicAuth ==
  Sent =>
    /\ DOMAIN SentHeaders = {"Authorization", "ContentType"}
    /\ SentHeaders.ContentType = <<"application/json">>
    /\ argv = CliKeys => SentHeaders.Authorization = <<"Basic ", "azpz">>
    /\ (argv = NoArgs /\ env = EnvKeys) =>
         SentHeaders.Authorization = <<"Basic ", "YWI6Y2Q=">>
    /\ argv = CliKeys \/ (argv = NoArgs /\ env = EnvKeys)

\* the one POST of the service, with the keys of the environment
C15_Witness ==
  /\ Sent
  /\ tool = "create_annotation"
  /\ env = EnvKeys
  /\ SentHeaders.Authorization = <<"Basic ", "YWI6Y2Q=">>

(***************************************************************************)
(* C16.  funnel_analysis: the query string of the request holds the key e  *)
(* once for every event definition of the input, and the values of e are   *)
(* the event definitions in the order of the input, repeated ones          *)
(* included.                                                               *)
(***************************************************************************)
C16_FunnelEventsInOrder ==
  (Sent /\ tool = "funnel_analysis") =>
    LET values == ValuesOf(SentUrl, "e")
    IN  /\ Len(values) = Len(input.events)
        /\ values = input.events

\* three events, the first and the third the same
C16_Witness ==
  /\ Sent
  /\ tool = "funnel_analysis"
  /\ Len(input.events) = 3
  /\ input.events[1] = input.events[3]
  /\ input.events[1] # input.events[2]
  /\ ValuesOf(SentUrl, "e") = input.events

(***************************************************************************)
(* C17.  Every request has the method and the path of its operation, for   *)
(* every input the schema accepts: create_annotation is a POST whose       *)
(* parameters are in the query string, every other operation is a GET, no  *)
(* request has a body, and the part of the URL before the query string is  *)
(* https://amplitude.com/api/2 followed by the path of the operation, or   *)
(* https://amplitude.com/api/3/chart/<chartId>/csv for get_chart.          *)
(***************************************************************************)
OperationPath(name) ==
  CASE name \in {"query_events", "segment_events", "event_segmentation_dashboard"} ->
         <<"/events/segmentation">>
    [] name = "export_events" -> <<"/export">>
    [] name = "get_active_users" -> <<"/users">>
    [] name = "funnel_analysis" -> <<"/funnels">>
    [] name = "retention_analysis" -> <<"/retention">>
    [] name = "get_user_activity" -> <<"/useractivity">>
    [] name = "get_events_list" -> <<"/events/list">>
    [] name \in {"create_annotation", "get_all_annotations", "get_annotation"} ->
         <<"/annotations">>

ExpectedPath(name, in) ==
  IF name = "get_chart"
  THEN <<"https://amplitude.com/api/3/chart/">> \o in.chartId \o <<"/csv">>
  ELSE <<"https://amplitude.com/api/2">> \o OperationPath(name)

\* the URL of the request up to its query string
SentPath == BeforeFirst(SentUrl, "?")

C17_FixedMethodAndPath ==
  Sent =>
    /\ requests[1].method = IF tool = "create_annotation" THEN "POST" ELSE "GET"
    /\ requests[1].body = <<>>
    /\ SentPath = ExpectedPath(tool, input)
    /\ tool = "create_annotation" =>
         /\ ValuesOf(SentUrl, "date") = <<input.date>>
         /\ ValuesOf(SentUrl, "label") = <<input.label>>
         /\ KeyCount(SentUrl, "app_id") = 1

(***************************************************************************)
(* The start of the server under every configuration of the command line  *)
(* and the environment.                                                    *)
(***************************************************************************)
InitConfig == Started(AllConfigs)

NextConfig == startup

SpecConfig == InitConfig /\ [][NextConfig]_vars

(***************************************************************************)
(* C18.  getAmplitudeCredentials resolves each key on its own: the value   *)
(* of the command line when the command line provides the key, else the    *)
(* value of the environment when the environment provides it; it throws    *)
(* the error that names the API key when no source provides the API key,   *)
(* and the error that names the secret key when the API key is there and   *)
(* no source provides the secret key.  The server that was started exits   *)
(* with that error on stderr, or is ready.                                 *)
(*                                                                         *)
(* C18_Original reads "provides" as: the source holds a value, the empty   *)
(* string included.  C18_CliWinsElseEnv reads it as: the source holds a    *)
(* string that is not empty.                                               *)
(***************************************************************************)
Provides(x, emptyCounts) == Supplied(x) /\ (emptyCounts \/ Val(x) # <<>>)

\* the result the claim asks for; emptyCounts says whether a source that
\* holds the empty string provides the key
ResolvedAs(emptyCounts) ==
  LET apiKey == IF Provides(argv.apiKey, emptyCounts)
                THEN argv.apiKey ELSE env.AMPLITUDE_API_KEY
      secretKey == IF Provides(argv.secretKey, emptyCounts)
                   THEN argv.secretKey ELSE env.AMPLITUDE_SECRET_KEY
  IN  IF ~Provides(apiKey, emptyCounts) THEN Throw(ApiKeyRequired)
      ELSE IF ~Provides(secretKey, emptyCounts) THEN Throw(SecretKeyRequired)
      ELSE Return([apiKey |-> Val(apiKey), secretKey |-> Val(secretKey)])

StartedAs(r) ==
  /\ pc = "exited" =>
       /\ r.kind = "throw"
       /\ stderr[Len(stderr)] = <<"Failed to load credentials:", " ">> \o r.message
  /\ pc = "idle" => r.kind = "return"

NotFound == Returned /\ response.kind = "http" /\ response.status = 404

C19_NotFoundFailsButForExport ==
  NotFound =>
    IF tool = "export_events"
    THEN outcome.kind = "return" /\ ~envelope.isError
    ELSE /\ outcome.kind = "throw"
         /\ envelope.isError
         /\ Len(envelope.content) = 1
         /\ StartsWith(envelope.content[1], ErrorPrefix(tool))

\* a 404 under get_events_list
C19_Witness ==
  /\ NotFound
  /\ tool = "get_events_list"
  /\ envelope.isError
  /\ outcome.kind = "throw"

(***************************************************************************)
(* Invocations in flight at the same time.  The server runs on one thread: *)
(* a handler runs from its call to the await of fetch, and from the moment *)
(* fetch settles to its return; between the two, other handlers run.  All  *)
(* handlers call the one exported amplitudeService, whose only field is    *)
(* the read-only baseUrl; what an invocation keeps across the await is the *)
(* frame of its own async functions.  calls[i] is the invocation of slot   *)
(* i.                                                                      *)
(***************************************************************************)
MaxCalls == 2

Slots == 1..MaxCalls

IdleCall ==
  [pc |-> "idle", tool |-> "none", input |-> <<>>, requests |-> <<>>,
   response |-> NoResponse, envelope |-> NoEnvelope]

ConcurrentTools == {"export_events", "get_user_activity", "create_annotation"}

\* the inputs of the invocations that overlap; the schemas accept all of them
ConcurrentInputs(name) ==
  CASE name = "export_events" ->
         [start : { <<"20220201", "T", "05">> }, end : { <<"20220201", "T", "23">> },
          limit : Optional({Num(1)})]
    [] name = "get_user_activity" ->
         [user : { <<"12345">> }, offset : {<<>>}, limit : Optional({Num(100)}),
          direction : {<<>>}]
    [] name = "create_annotation" ->
         [app_id : {Num(123)}, date : { <<"2023", "-", "01", "-", "31">> },
          label : { <<"release">>, <<"a", "&", "b">> },
          chart_id : {<<>>}, details : {<<>>}]

ConcurrentResponses(name) ==
  IF name = "export_events"
  THEN { NetworkFailure,
         HttpResponse(404, StatusText(404), FALSE, <<>>),
         HttpResponse(200, StatusText(200), TRUE,
                      <<"{\"a\":1}", "\n", "{\"b\":2}">>) }
  ELSE { NetworkFailure,
         HttpResponse(200, StatusText(200), FALSE, <<"{\"data\":[]}">>),
         HttpResponse(500, StatusText(500), FALSE, <<"quota", " ", "exceeded">>) }

\* the request the service method of a tool sends
ServiceRequest(name, in, credentials) ==
  CASE name = "export_events" ->
         fetch("GET", exportUrl([start |-> in.start, end |-> in.end]),
               buildHeaders(credentials))
    [] name = "get_user_activity" ->
         fetch("GET", getUserActivityUrl(in), buildHeaders(credentials))
    [] name = "create_annotation" ->
         fetch("POST", createAnnotationUrl(in), buildHeaders(credentials))

\* the envelope the handler of a tool returns once fetch has settled
HandlerEnvelope(name, in, resp) ==
  IF name = "export_events"
  THEN exportEnvelope(in, exportEvents(resp))
  ELSE jsonEnvelope(name, jsonService(name, resp))

FrameOfLastInFlight(cs, i) ==
  cs[CHOOSE j \in DOMAIN cs :
       /\ cs[j].pc = "awaiting"
       /\ \A k \in DOMAIN cs : cs[k].pc = "awaiting" => k <= j]

\* the parameters and locals that the async functions of invocation i
\* resume with when its fetch settles
Frame(cs, i) == cs[i]

ConcurrentInit ==
  /\ pc = "idle"
  /\ tool = "none"
  /\ input = <<>>
  /\ requests = <<>>
  /\ response = NoResponse
  /\ outcome = NoOutcome
  /\ envelope = NoEnvelope
  /\ argv = CliKeys
  /\ env = NoEnv
  /\ stderr = ReadyLines
  /\ calls = [i \in Slots |-> IdleCall]
  /\ server = Registered
  /\ exitCode = <<>>

Unshared ==
  UNCHANGED <<pc, tool, input, requests, response, outcome, envelope,
              argv, env, stderr, server, exitCode>>

\* a tool is called while other invocations may be in flight: the handler
\* runs up to the fetch of its service method
Invoke(i) ==
  /\ calls[i].pc = "idle"
  /\ \E name \in ConcurrentTools :
       \E in \in ConcurrentInputs(name) :
         calls' = [calls EXCEPT ![i] =
                     [pc |-> "awaiting", tool |-> name, input |-> in,
                      requests |->
                        <<ServiceRequest(name, in,
                            getAmplitudeCredentials(argv, env).value)>>,
                      response |-> NoResponse, envelope |-> NoEnvelope]]
  /\ Unshared

\* the fetch of invocation i settles: its service method and its handler run
\* to their end
Settles(i) ==
  /\ calls[i].pc = "awaiting"
  /\ \E resp \in ConcurrentResponses(calls[i].tool) :
       LET frame == Frame(calls, i)
       IN  calls' = [calls EXCEPT ![i] =
                       [@ EXCEPT !.pc = "done", !.response = resp,
                                 !.envelope =
                                   HandlerEnvelope(frame.tool, frame.input, resp)]]
  /\ Unshared

\* the envelope of invocation i goes back to the client
Responds(i) ==
  /\ calls[i].pc = "done"
  /\ calls' = [calls EXCEPT ![i] = IdleCall]
  /\ Unshared

ConcurrentNext ==
  \/ \E i \in Slots : Invoke(i)
  \/ \E i \in Slots : Settles(i)
  \/ \E i \in Slots : Responds(i)

SpecConcurrent == ConcurrentInit /\ [][ConcurrentNext]_vars

(***************************************************************************)
(* C20.  Under every interleaving of the invocations, the request an       *)
(* invocation has sent is the request of its own tool and input under the  *)
(* credentials, and the envelope it returns is the envelope of its own     *)
(* tool and input for the response to its own request: what the other      *)
(* invocations are called with, and what they get back, changes neither.   *)
(***************************************************************************)
C20_InvocationsDoNotInterfere ==
  \A i \in Slots :
    /\ calls[i].pc \in {"awaiting", "done"} =>
         calls[i].requests =
           <<ServiceRequest(calls[i].tool, calls[i].input,
                            [apiKey |-> <<"k">>, secretKey |-> <<"s">>])>>
    /\ calls[i].pc = "done" =>
         calls[i].envelope =
           HandlerEnvelope(calls[i].tool, calls[i].input, calls[i].response)

\* an export limited to 1 event returned 1 of 2 events while a call of
\* get_user_activity is in flight
C20_Witness ==
  /\ calls[1].pc = "done"
  /\ calls[1].tool = "export_events"
  /\ Supplied(calls[1].input.limit)
  /\ calls[1].response.status = 200
  /\ calls[1].envelope.content[1] = Summary(2, 1)
  /\ calls[2].pc = "awaiting"
  /\ calls[2].tool = "get_user_activity"

(***************************************************************************)
(* C21.  No line written to stderr, no message of a thrown error and no    *)
(* item of an envelope contains the API key, the secret key or the value   *)
(* of the Authorization header.  The envelope of an invocation is the      *)
(* envelope of its tool, input and response, and the lines on stderr are   *)
(* the fixed lines of the start or the lines about the export lines that   *)
(* did not parse: neither mentions the credentials, so that two runs that  *)
(* differ in the credentials only show the same texts.                     *)
(***************************************************************************)
\* the keys the command line and the environment hold, and what the
\* Authorization header of the request in flight is made of
Secrets ==
  {Val(x) : x \in {y \in {argv.apiKey, argv.secretKey, env.AMPLITUDE_API_KEY,
                          env.AMPLITUDE_SECRET_KEY} : Supplied(y) /\ Val(y) # <<>>}}
  \cup (IF requests # <<>>
        THEN {requests[1].headers.Authorization,
              <<requests[1].headers.Authorization[2]>>}
        ELSE {})

NoSecretIn(t) == \A secret \in Secrets : ~Includes(t, secret)

\* the envelope of a tool, an input and a response
EnvelopeOf(name, in, resp) ==
  IF name = "export_events" THEN exportEnvelope(in, exportEvents(resp))
  ELSE IF name \in {"query_events", "segment_events"}
  THEN jsonEnvelope(name, queryEvents(resp))
  ELSE jsonEnvelope(name, jsonService(name, resp))

C21_SecretsStayOut ==
  /\ \A i \in 1..Len(stderr) : NoSecretIn(stderr[i])
  /\ NoSecretIn(outcome.message)
  /\ \A i \in 1..Len(envelope.content) : NoSecretIn(envelope.content[i])
  /\ Returned => envelope = EnvelopeOf(tool, input, response)
  /\ \/ stderr \in {<<>>, ReadyLines, FailedLines(ApiKeyRequired),
                    FailedLines(SecretKeyRequired)}
     \/ Returned /\ tool = "export_events" /\ stderr = exportEventsLog(response)

\* the start fails with the API key on the command line and no secret key:
\* the line on stderr names the missing key and not the key that is there
C21_Witness ==
  /\ pc = "exited"
  /\ argv.apiKey = << <<"k">> >>
  /\ Len(stderr) = 2
  /\ stderr[2] = <<"Failed to load credentials:", " ">> \o SecretKeyRequired

(***************************************************************************)
(* C22.  No step of the server changes the credentials: the command line   *)
(* and the environment stay what they were when the server was started, so *)
(* that every invocation resolves the pair that was resolved at the start; *)
(* and from the moment the request is sent to the return of the handler    *)
(* the input of the invocation and the headers made of the credentials     *)
(* stay what they were.                                                    *)
(***************************************************************************)
C22_CredentialsAndInputUnchanged ==
  [][ /\ argv' = argv
      /\ env' = env
      /\ getAmplitudeCredentials(argv', env') = getAmplitudeCredentials(argv, env)
      /\ pc = "awaiting" =>
           /\ input' = input
           /\ requests'[1].headers = requests[1].headers
      /\ pc' = "awaiting" =>
           requests'[1].headers
             = buildHeaders(getAmplitudeCredentials(argv, env).value)
    ]_vars

\* an invocation has failed, and the keys of the environment still resolve
C22_Witness ==
  /\ Returned
  /\ envelope.isError
  /\ response.kind = "http"
  /\ getAmplitudeCredentials(argv, env)
       = Return([apiKey |-> <<"a", "b">>, secretKey |-> <<"c", "d">>])

(***************************************************************************)
(* C23.  Every request that leaves the process carries the Authorization   *)
(* header of a pair whose API key and secret key are both strings that are *)
(* not empty.  When the command line and the environment leave a key       *)
(* missing or empty, no request is ever sent: the server does not get past *)
(* its start, and serves no invocation.                                    *)
(***************************************************************************)
KeyMissing(cli, environment) ==
  ~Provides(cli, FALSE) /\ ~Provides(environment, FALSE)

C23_RequestsNeedBothKeys ==
  /\ requests # <<>> =>
       LET c == getAmplitudeCredentials(argv, env)
       IN  /\ c.kind = "return"
           /\ c.value.apiKey # <<>>
           /\ c.value.secretKey # <<>>
           /\ requests[1].headers.Authorization
                = <<"Basic ",
                    Base64(BufferFrom(c.value.apiKey \o <<":">> \o c.value.secretKey))>>
  /\ (\/ KeyMissing(argv.apiKey, env.AMPLITUDE_API_KEY)
      \/ KeyMissing(argv.secretKey, env.AMPLITUDE_SECRET_KEY)) =>
       /\ requests = <<>>
       /\ pc \in {"starting", "exited"}
       /\ tool = "none"

\* the secret key of the environment is the empty string: the server exits
C23_Witness ==
  /\ pc = "exited"
  /\ env.AMPLITUDE_API_KEY = << <<"a", "b">> >>
  /\ env.AMPLITUDE_SECRET_KEY = << <<>> >>
  /\ requests = <<>>

(***************************************************************************)
(* C24.  The limit of export_events stays in the handler.  The request is  *)
(* a GET of /export whose query string holds the keys start and end, with  *)
(* the values of the input, and nothing else: it is the same request for   *)
(* every limit, supplied or not.  The service method returns every record  *)
(* the response holds, whatever the limit, and the summary counts them     *)
(* all; the limit only cuts the payload.                                   *)
(***************************************************************************)
C24_ExportLimitStaysLocal ==
  /\ (Sent /\ tool = "export_events") =>
       /\ requests[1].method = "GET"
       /\ requests[1].body = <<>>
       /\ SentUrl = <<"https://amplitude.com/api/2", "/export", "?", "start", "=">>
                      \o input.start \o <<"&", "end", "=">> \o input.end
       /\ LET ps == QueryParams(SentUrl)
          IN  [i \in 1..Len(ps) |-> ps[i].k] = << <<"start">>, <<"end">> >>
  /\ (ExportReturned /\ response.kind = "http" /\ ok(response) /\ response.gzip) =>
       LET good == GoodLines(Split(response.body, "\n"))
       IN  /\ outcome.kind = "return"
           /\ Len(outcome.value) = Cardinality(good)
           /\ envelope.content[1][2] = ToString(Cardinality(good))

\* an export of 3 records under the limit 1: no key limit in the request,
\* 3 records decoded, 1 returned
C24_Witness ==
  /\ ExportReturned
  /\ input.limit = <<Num(1)>>
  /\ KeyCount(SentUrl, "limit") = 0
  /\ Len(outcome.value) = 3
  /\ envelope.content[1] = Summary(3, 1)


(***************************************************************************)
(* C25.  The example requests of query_events and of segment_events in the *)
(* README, with start "2023-01-01" and end "2023-01-31", pass the input    *)
(* validation and lead to a request to /events/segmentation.               *)
(***************************************************************************)
C25_ReadmeExampleAccepted ==
  \A name \in {"query_events", "segment_events"} :
    (tool = name
     /\ input = (IF name = "query_events"
                 THEN QueryEventsExample ELSE SegmentEventsExample)) =>
      /\ pc # "rejected"
      /\ Sent
      /\ SentPath = baseUrl \o <<"/events/segmentation">>


(***************************************************************************)
(* The start of the server, statement by statement: the credentials are    *)
(* resolved, the server is created, the tools are registered one after the *)
(* other, then the resource, and the transport is connected.  Under        *)
(* SpecStartup every configuration of command line and environment         *)
(* starts the server, and the connected server serves get_chart and        *)
(* get_events_list.                                                        *)
(***************************************************************************)
StartupRest == <<tool, input, requests, response, outcome, envelope, argv, env, calls>>

\* index.ts 9-18
loadCredentials ==
  /\ pc = "starting"
  /\ LET c == getAmplitudeCredentials(argv, env)
     IN  IF c.kind = "throw"
         THEN /\ pc' = "exited"
              /\ stderr' = FailedLines(c.message)
              /\ exitCode' = <<1>>
         ELSE /\ pc' = "loaded"
              /\ stderr' = SubSeq(ReadyLines, 1, 2)
              /\ exitCode' = exitCode
  /\ UNCHANGED server
  /\ UNCHANGED StartupRest

\* index.ts 21-26
createServer ==
  /\ pc = "loaded"
  /\ ~server.created
  /\ server' = McpServer
  /\ stderr' = SubSeq(ReadyLines, 3, 3)
  /\ UNCHANGED <<pc, exitCode>>
  /\ UNCHANGED StartupRest

\* the next call of server.registerTool
registerNextTool ==
  /\ pc = "loaded"
  /\ server.created
  /\ Len(server.tools) < Len(ToolNames)
  /\ server' = registerTool(server, ToolNames[Len(server.tools) + 1])
  /\ stderr' = <<>>
  /\ UNCHANGED <<pc, exitCode>>
  /\ UNCHANGED StartupRest

\* index.ts 638-646
registerEventsResource ==
  /\ pc = "loaded"
  /\ server.created
  /\ Len(server.tools) = Len(ToolNames)
  /\ server.resources = <<>>
  /\ server' = registerResource(server, "amplitude_events")
  /\ stderr' = <<>>
  /\ UNCHANGED <<pc, exitCode>>
  /\ UNCHANGED StartupRest

connectTransportUnregistered ==
  /\ pc = "loaded"
  /\ server.created
  /\ ~server.connected
  /\ server' = connect(server)
  /\ pc' = "idle"
  /\ stderr' = SubSeq(ReadyLines, 4, 7)
  /\ UNCHANGED exitCode
  /\ UNCHANGED StartupRest

\* index.ts 648-655: the requests of the client are read from now on
connectTransport ==
  /\ pc = "loaded"
  /\ server.resources # <<>>
  /\ ~server.connected
  /\ server' = connect(server)
  /\ pc' = "idle"
  /\ stderr' = SubSeq(ReadyLines, 4, 7)
  /\ UNCHANGED exitCode
  /\ UNCHANGED StartupRest

InitStartup == Started(AllConfigs)

NextStartup ==
  \/ loadCredentials
  \/ createServer
  \/ registerNextTool
  \/ registerEventsResource
  \/ connectTransport
  \/ get_chart
  \/ get_events_list
  \/ jsonServiceSettles
  \/ Respond

SpecStartup == InitStartup /\ [][NextStartup]_vars

(***************************************************************************)
(* C26.  The order of the start.  The server is created only when the      *)
(* credentials were resolved; when a key is missing the process exits with *)
(* status 1, and then no server exists, no tool is registered, nothing is  *)
(* connected and no invocation is served.  A tool is registered on a       *)
(* created server, in the order of the source; the server is connected     *)
(* only with all 13 tools and the resource registered, and an invocation   *)
(* is served only by a connected server.                                   *)
(***************************************************************************)
Serving == tool # "none" \/ pc \in {"idle", "awaiting", "rejected", "done"}

C26_StartupOrder ==
  LET c == getAmplitudeCredentials(argv, env)
  IN  /\ exitCode \in {<<>>, <<1>>}
      /\ pc = "exited" <=> exitCode = <<1>>
      /\ pc = "exited" => c.kind = "throw"
      /\ c.kind = "throw" =>
           /\ pc \in {"starting", "exited"}
           /\ server = NoServer
           /\ ~Serving
           /\ requests = <<>>
           /\ envelope = NoEnvelope
      /\ pc = "starting" => server = NoServer
      /\ server.created => c.kind = "return"
      /\ (server.tools # <<>> \/ server.resources # <<>> \/ server.connected) =>
           server.created
      /\ Len(server.tools) <= Len(ToolNames)
      /\ server.tools = SubSeq(ToolNames, 1, Len(server.tools))
      /\ server.resources # <<>> =>
           /\ server.tools = ToolNames
           /\ server.resources = <<"amplitude_events">>
      /\ server.connected => server = Registered
      /\ Serving => server.connected

\* the connected server, with its 13 tools, has served get_chart
C26_Witness ==
  /\ pc = "done"
  /\ tool = "get_chart"
  /\ server.connected
  /\ Len(server.tools) = 13
  /\ exitCode = <<>>


(***************************************************************************)
(* C27.  query_events and segment_events send the same request for every   *)
(* two valid inputs that agree on the event type of the first event, on    *)
(* start and on end.  The request of an input is the request of its        *)
(* projection on these three values, under either tool; two inputs that    *)
(* agree on them have the same projection, hence the same request,         *)
(* whatever their interval, groupBy, filters, breakdowns, later events     *)
(* and property filters are.                                               *)
(***************************************************************************)
Projection(in) ==
  [events |-> << [eventType |-> in.events[1].eventType, propertyFilters |-> <<>>] >>,
   start |-> in.start, end |-> in.end, interval |-> <<>>, groupBy |-> <<>>]

C28_SegmentationQueryIntact ==
  (Sent /\ tool \in {"query_events", "segment_events"}) =>
    LET ps == QueryParams(SentUrl)
    IN  /\ [i \in 1..Len(ps) |-> ps[i].k] = << <<"e">>, <<"start">>, <<"end">> >>
        /\ ValuesOf(SentUrl, "e") = << EventFragment(input.events[1].eventType) >>
        /\ ValuesOf(SentUrl, "start") = <<input.start>>
        /\ ValuesOf(SentUrl, "end") = <<input.end>>


(***************************************************************************)
(* C29.  Every element of the list exportEvents returns is a JSON object:  *)
(* a line that holds another JSON value (a number, a string, a boolean,    *)
(* null, an array) gives no element of the result and none of the payload. *)
(***************************************************************************)
C29_ExportReturnsObjectsOnly ==
  (ExportReturned /\ outcome.kind = "return") =>
    /\ \A i \in 1..Len(outcome.value) : outcome.value[i].type = "object"
    /\ LET lines == Split(response.body, "\n")
       IN  \A i \in 1..Len(lines) :
             (Parses(lines[i]) /\ JSONparse(lines[i]).type # "object") =>
               ~Includes(Payload, <<JSONparse(lines[i]).canon>>)


(***************************************************************************)
(* C30.  The summary of a successful export_events: 'Total events' is the  *)
(* number of records decoded from the whole response, 'Returned' is the    *)
(* number of records of the payload, and Returned is min(Total, limit)     *)
(* with a limit supplied and min(Total, 1000) without, so that             *)
(* Returned <= Total and Returned <= 10000.                                *)
(* As amended: with a limit supplied Returned is min(Total, floor(limit)); *)
(* the schema accepts limits that are not whole numbers.                   *)
(***************************************************************************)
MaxLimit == 10000

\* the claim as stated: Returned = min(Total, limit)
C30_Original ==
  (ExportReturned /\ outcome.kind = "return") =>
    LET total == Len(outcome.value)
        limit == IF Supplied(input.limit) THEN Val(input.limit) ELSE Num(DefaultLimit)
    IN  \E returned \in 0..total :
          /\ envelope.content[1] = Summary(total, returned)
          /\ Payload = FirstRecords(returned)
          /\ Num(returned) = Min(Num(total), limit)
          /\ returned <= MaxLimit

C30_ExportSummaryCounts ==
  (ExportReturned /\ outcome.kind = "return") =>
    LET total == Len(outcome.value)
        limit == IF Supplied(input.limit) THEN Val(input.limit) \div 2 ELSE DefaultLimit
        returned == Min(total, limit)
    IN  /\ total = Cardinality(GoodLines(Split(response.body, "\n")))
        /\ envelope.content[1] = Summary(total, returned)
        /\ Payload = FirstRecords(returned)
        /\ returned <= total
        /\ returned <= MaxLimit

\* 1001 records decoded and no limit: 1000 returned
C30_Witness ==
  /\ ExportReturned /\ outcome.kind = "return"
  /\ ~Supplied(input.limit)
  /\ Len(outcome.value) = BulkSize
  /\ envelope.content[1] = Summary(BulkSize, DefaultLimit)

====
